---- MODULE Spec2Model ----
(***************************************************************************)
(* Model of the retrieval path of the RAG server: SearchContextTool        *)
(* (dist/tools/SearchContextTool.js).  One search request is received,     *)
(* the similarity index answers the single oversampled query, and the      *)
(* answer is thresholded, re-ranked and returned.                          *)
(*                                                                         *)
(* Number representation.  Similarity scores, thresholds and cosines are   *)
(* real numbers in the code; here they are integers in hundredths          *)
(* (0.7 is 70), mmrLambda is in tenths (0.5 is 5).  The vectors of the     *)
(* pool have integer norms, so every cosine is an exact multiple of 1/100  *)
(* and the integer arithmetic below is the code's arithmetic, exactly.     *)
(***************************************************************************)
EXTENDS Integers, Sequences, FiniteSets, TLC

VARIABLES
    pc,               \* "idle" | "querying" | "done": position of execute
    input,            \* the request being served (SearchContextInput)
    queryEmbedding,   \* embedding of the query
    vectorResults,    \* what queryVectors returned
    cutoff,           \* execute's local `cutoff` after thresholding
    filteredVectors,  \* execute's local `filteredVectors` (after the fallback)
    rankedResults,    \* `results` of the returned value
    totalResults,     \* `totalResults` of the returned value
    success,          \* `success` of the returned value
    message,          \* `message` of the returned value
    issuedQuery,      \* the options execute passed to queryVectors
    calls,            \* provider calls the request made, and which one failed
    mmrPc,            \* "off" | "loop" | "done": a call of maximalMarginalRelevance
    mmrArgs,          \* its arguments: candidates, query, lambda, k
    mmrSelected,      \* its local `selected`
    cosPc,            \* "off" | "called" | "returned": a call of a cosine function
    cosArgs,          \* the function called and its two vectors
    cosResult,        \* what the call produced
    toolCall,         \* the index_source / index_local / delete_source call running
    toolResult,       \* how that call ended: a returned value or a rejection
    store,            \* number of vectors the index holds for each source url
    chunkPc,          \* "off" | "loop" | "done": rechunkDocumentation on one page
    chunkArgs,        \* length of page.content, and tokensPerChunk
    pos,              \* rechunkDocumentation's local `pos`
    chunks,           \* the chunks pushed so far, as [from, to) slices of the page
    embeddingCache,   \* keys of SearchContextTool.embeddingCache, in insertion order
    requests,         \* the concurrent search requests of the cache specification
    localPc,          \* position of IndexLocalTool.execute, "off" when not running
    files,            \* its local `files`: what reading each file will do
    fileIdx,          \* index of the loop it is in
    codeFiles,        \* its local `codeFiles`: the files read, as indices of files
    localChunks,      \* its local `chunks`: for each chunk, the file it is from
    localResult,      \* how the call ended, with the fields of the returned value
    embPc,            \* position of generateEmbeddings, "off" when not running
    embArgs,          \* the service called, its texts and its batchSize
    validTexts,       \* EmbeddingService's local `validTexts` not sent yet
    embResults,       \* EmbeddingService's local `results`
    embReturn,        \* how the call ended: the array returned, or a rejection
    upPc,             \* position of upsertVectors and of the index_source run calling it
    upArgs,           \* the number of vectors passed, and the service's batchSize
    batchIdx,         \* upsertVectors' loop index i, counted from 1
    retryCount,       \* upsertVectors' local `retryCount`
    upLog,            \* the requests sent and the delays waited, in order
    upStored,         \* the batches of the run that are in the index
    upResult,         \* how upsertVectors ended, and `success` of what index_source returned
    registryFile,     \* the file .rag-mcp/sources.json: whether it exists, and its entries
    registryBefore,   \* the entries of the file before the runs
    registryRuns,     \* the concurrent index_source runs: position, and `cache` of their SourceRegistryService
    idPc,             \* position of rechunkDocumentation over the pages of a crawl, "off" when not running
    idArgs,           \* input.url, the results of the crawl (url and length of content), tokensPerChunk
    pageIdx,          \* index of the page of the loop over docContent.pages
    pagePos,          \* the local `pos` of the loop over that page
    idx,              \* the local `idx` of that page
    chunkIds          \* the ids of the chunks pushed so far

searchVars == <<pc, input, queryEmbedding, vectorResults, cutoff, filteredVectors,
                rankedResults, totalResults, success, message, issuedQuery, calls>>
mmrVars == <<mmrPc, mmrArgs, mmrSelected>>
cosVars == <<cosPc, cosArgs, cosResult>>
toolVars == <<toolCall, toolResult, store>>
chunkVars == <<chunkPc, chunkArgs, pos, chunks>>
cacheVars == <<embeddingCache, requests>>
localVars == <<localPc, files, fileIdx, codeFiles, localChunks, localResult>>
embVars == <<embPc, embArgs, validTexts, embResults, embReturn>>
upsertVars == <<upPc, upArgs, batchIdx, retryCount, upLog, upStored, upResult>>
registryVars == <<registryFile, registryBefore, registryRuns>>
idVars == <<idPc, idArgs, pageIdx, pagePos, idx, chunkIds>>
\* the state of the specifications of the ingestion side
extVars == <<localVars, embVars, upsertVars, registryVars, idVars>>
\* the parts of the state the search does not touch
auxVars == <<cosVars, toolVars, chunkVars, cacheVars, extVars>>
vars == <<searchVars, mmrVars, auxVars>>

-----------------------------------------------------------------------------
(* Bounds of the model *)

\* longest answer of the similarity index that is explored
MaxCands == 4
\* largest maxResults a request asks for
MaxResultsBound == 2
\* longest candidate list, and largest k, of a direct call of
\* maximalMarginalRelevance
MaxMmrCands == 4

-----------------------------------------------------------------------------
(* Small helpers *)

Min(a, b) == IF a < b THEN a ELSE b
Max(a, b) == IF a > b THEN a ELSE b

Range(s) == {s[i] : i \in 1..Len(s)}

RECURSIVE SumSeq(_)
SumSeq(s) == IF s = <<>> THEN 0 ELSE s[1] + SumSeq(Tail(s))

\* Array.prototype.slice(0, n) for n >= 0
Slice0(s, n) == SubSeq(s, 1, Min(n, Len(s)))

\* Math.sqrt on the perfect squares the pool's vectors produce
Sqrt(n) == CHOOSE r \in 0..n : r * r = n

-----------------------------------------------------------------------------
(* The data the search works on *)

\* Query texts, as the sequence of their whitespace-separated lower-case words.
Queries == { <<"foo">>, <<"how", "api">> }

\* generateQueryEmbedding: the embedding provider's vector for a query text.
generateQueryEmbedding(query) ==
    IF query = <<"foo">> THEN <<3, 4>> ELSE <<1, 0>>

\* Chunk contents stored in the index: length in characters and the words of
\* the vocabulary the text contains.
Contents ==
    [ cA |-> [length |-> 600, words |-> {"api", "foo"}],
      cB |-> [length |-> 50,  words |-> {}],
      cC |-> [length |-> 300, words |-> {"how"}],
      cD |-> [length |-> 300, words |-> {"foo"}],
      cE |-> [length |-> 50,  words |-> {"api"}] ]

\* The vectors the similarity index holds (Vector of types/index), each with the
\* raw score the index reports for it.  Vectors 1 and 2 are one chunk stored
\* twice: same content, same hash, same source path.
Pool ==
    << [id |-> 1, score |-> 75, values |-> <<3, 4>>,
        metadata |-> [content |-> "cA", hash |-> "hA", type |-> "code",
                      sourceUrl |-> "urlA", sourcePath |-> "p1", section |-> FALSE]],
       [id |-> 2, score |-> 75, values |-> <<3, 4>>,
        metadata |-> [content |-> "cA", hash |-> "hA", type |-> "code",
                      sourceUrl |-> "urlA", sourcePath |-> "p1", section |-> FALSE]],
       [id |-> 3, score |-> 66, values |-> <<4, 3>>,
        metadata |-> [content |-> "cB", hash |-> "hB", type |-> "documentation",
                      sourceUrl |-> "urlB", sourcePath |-> "p2", section |-> TRUE]],
       [id |-> 4, score |-> 25, values |-> <<1, 0>>,
        metadata |-> [content |-> "cC", hash |-> "hC", type |-> "documentation",
                      sourceUrl |-> "urlA", sourcePath |-> "p3", section |-> FALSE]],
       [id |-> 5, score |-> 15, values |-> <<0, 1>>,
        metadata |-> [content |-> "cD", hash |-> "hD", type |-> "readme",
                      sourceUrl |-> "urlB", sourcePath |-> "p4", section |-> FALSE]],
       [id |-> 6, score |-> 12, values |-> <<0, 0>>,
        metadata |-> [content |-> "cE", hash |-> "hE", type |-> "code",
                      sourceUrl |-> "urlA", sourcePath |-> "p5", section |-> TRUE]] >>

\* requested thresholds explored, in hundredths: below the whole fallback
\* ladder, the default, above every score
ThresholdValues == {10, 70, 90}

\* The requests explored (SearchContextInput).  threshold is in hundredths,
\* mmrLambda in tenths.
Inputs ==
    [ query : Queries,
      maxResults : 1..MaxResultsBound,
      threshold : ThresholdValues,
      minResults : {1, 5},
      oversample : {0, 5},
      topKCap : {1, 100},
      mmrLambda : {0, 5, 10},
      maxPerSource : {1, 2},
      dedupe : BOOLEAN,
      lowerThresholdOnFewResults : BOOLEAN ]

NoInput ==
    [ query |-> <<>>, maxResults |-> 0, threshold |-> 0, minResults |-> 0,
      oversample |-> 0, topKCap |-> 0, mmrLambda |-> 0, maxPerSource |-> 0,
      dedupe |-> FALSE, lowerThresholdOnFewResults |-> FALSE ]

-----------------------------------------------------------------------------
(* execute, lines 80-93: the oversampled similarity query *)

\* const baseMaxResults = input.maxResults || 10
baseMaxResults(in) == IF in.maxResults = 0 THEN 10 ELSE in.maxResults

\* topK whose cap is the request's topKCap as it is
topK_CapNotRaised(in) ==
    LET oversample == Max(1, in.oversample)
    IN  Min(baseMaxResults(in) * oversample, in.topKCap)

\* const topK = Math.min(baseMaxResults * oversample, topKCap)
topK(in) ==
    LET oversample == Max(1, in.oversample)
        cap == Max(baseMaxResults(in), in.topKCap)
    IN  Min(baseMaxResults(in) * oversample, cap)

\* const minResults = Math.max(1, input.minResults ?? 5)
minResults(in) == Max(1, in.minResults)

\* allowAdaptive that does not read the request's flag
allowAdaptive_Always(in) == TRUE

\* const allowAdaptive = input.lowerThresholdOnFewResults !== false
allowAdaptive(in) == in.lowerThresholdOnFewResults # FALSE

\* The answers of length n an index holding Pool can give, as sequences of
\* pool indices: distinct matches, score descending (every implementation of
\* queryVectors ends with sort((a, b) => b.score - a.score)).
RECURSIVE SortedIdxSeqs(_)
SortedIdxSeqs(n) ==
    IF n = 0 THEN {<<>>}
    ELSE LET shorter == SortedIdxSeqs(n - 1)
         IN  UNION { { Append(s, i) : i \in { j \in 1..Len(Pool) :
                           /\ j \notin Range(s)
                           /\ s # <<>> => Pool[s[Len(s)]].score >= Pool[j].score } } :
                     s \in shorter }

\* the answers of at most n matches, for each n explored
AnswersUpTo == [n \in 0..MaxCands |-> UNION {SortedIdxSeqs(k) : k \in 0..n}]

\* queryVectors(queryEmbedding, {topK, threshold: 0, includeValues: true}): what
\* an IVectorStoreService may answer.  At most topK matches, score descending;
\* the matches carry their vector values or not (QueryResult.values is
\* optional, and the services of this repository never fill it).
queryVectors(in) ==
    { [i \in 1..Len(s) |->
          IF withValues THEN Pool[s[i]]
          ELSE [Pool[s[i]] EXCEPT !.values = <<>>]] :
      s \in AnswersUpTo[Min(topK(in), MaxCands)], withValues \in BOOLEAN }

-----------------------------------------------------------------------------
(* execute, lines 95-108: local adaptive thresholding *)

\* const thresholds = [input.threshold ?? 0.7, 0.6, 0.5, 0.4, 0.3, 0.2]
thresholds(in) == <<in.threshold, 60, 50, 40, 30, 20>>

\* filterByCutoff with the comparison turned round (r.score <= cutoff)
filterByCutoff_Reversed(results, c) ==
    LET Passes(r) == r.score <= c IN SelectSeq(results, Passes)

\* vectorResults.filter(r => (r.score ?? 0) >= cutoff)
filterByCutoff(results, c) ==
    LET Passes(r) == r.score >= c IN SelectSeq(results, Passes)

\* for (const t of thresholds.slice(1)) { cutoff = t; filter; if (...) break }
\* returns the cutoff the loop ends with; `ts` is what is left of the ladder
\* and `c` the cutoff set so far.
RECURSIVE walkLadder(_, _, _, _)
walkLadder(results, in, ts, c) ==
    IF ts = <<>> THEN c
    ELSE IF Len(filterByCutoff(results, ts[1])) >=
                Min(minResults(in), baseMaxResults(in))
         THEN ts[1]
         ELSE walkLadder(results, in, Tail(ts), ts[1])

\* adaptiveCutoff whose entry test is the loop's exit test:
\* filteredVectors.length < Math.min(minResults, baseMaxResults)
adaptiveCutoff_EntryMin(results, in) ==
    LET first == thresholds(in)[1]
    IN  IF /\ allowAdaptive(in)
           /\ Len(filterByCutoff(results, first))
                  < Min(minResults(in), baseMaxResults(in))
        THEN walkLadder(results, in, Tail(thresholds(in)), first)
        ELSE first

\* the value of `cutoff` after lines 96-105
adaptiveCutoff(results, in) ==
    LET first == thresholds(in)[1]
    IN  IF allowAdaptive(in) /\ Len(filterByCutoff(results, first)) < minResults(in)
        THEN walkLadder(results, in, Tail(thresholds(in)), first)
        ELSE first

\* thresholdStep without lines 106-108, the top-maxResults fallback
thresholdStep_NoFallback(results, in) ==
    filterByCutoff(results, adaptiveCutoff(results, in))

\* the value of `filteredVectors` after lines 96-108
thresholdStep(results, in) ==
    LET passing == filterByCutoff(results, adaptiveCutoff(results, in))
    IN  IF Len(passing) = 0 THEN Slice0(results, baseMaxResults(in))
        ELSE passing

-----------------------------------------------------------------------------
(* Conversion and the diversity (MMR) path *)

\* convertToSearchResults: one SearchResult per filtered vector, in order.
\* `ref` is the object's identity (its position in filteredVectors), which
\* diversifyResults' `diversified.includes(r)` compares.
convertToSearchResults(vectors) ==
    [i \in 1..Len(vectors) |->
        [ ref |-> i,
          content |-> vectors[i].metadata.content,
          source |-> [ url |-> vectors[i].metadata.sourceUrl,
                       type |-> IF vectors[i].metadata.type \in {"code", "readme"}
                                THEN "github" ELSE "documentation",
                       path |-> vectors[i].metadata.sourcePath ],
          metadata |-> [section |-> vectors[i].metadata.section],
          score |-> vectors[i].score ]]

\* const haveValues = filteredVectors.every(v => Array.isArray(v.values) && v.values.length > 0)
haveValues(vectors) == \A i \in 1..Len(vectors) : Len(vectors[i].values) > 0

\* cosine(a, b), in hundredths
cosine(a, b) ==
    LET len == Min(Len(a), Len(b))
        dot == SumSeq([i \in 1..len |-> a[i] * b[i]])
        na == SumSeq([i \in 1..len |-> a[i] * a[i]])
        nb == SumSeq([i \in 1..len |-> b[i] * b[i]])
    IN  IF na = 0 \/ nb = 0 THEN 0
        ELSE (dot * 100) \div (Sqrt(na) * Sqrt(nb))

\* maxSimilarity with Math.min for Math.max
maxSimilarity_Min(candidates, i, selected) ==
    LET sims == {cosine(candidates[i], candidates[selected[p]]) : p \in 1..Len(selected)}
    IN  CHOOSE m \in sims : \A x \in sims : m <= x

\* Math.max(...selected.map(j => this.cosine(candidates[i], candidates[j])))
maxSimilarity(candidates, i, selected) ==
    LET sims == {cosine(candidates[i], candidates[selected[p]]) : p \in 1..Len(selected)}
    IN  CHOOSE m \in sims : \A x \in sims : x <= m

\* mmrScore whose redundancy weight does not depend on lambda
mmrScore_FullRedundancy(candidates, query, lambda, i, selected) ==
    LET relevance == cosine(candidates[i], query)
        redundancy == IF Len(selected) > 0 THEN maxSimilarity(candidates, i, selected)
                      ELSE 0
    IN  lambda * relevance - 10 * redundancy

\* const score = lambda * relevance - (1 - lambda) * redundancy, in thousandths
\* (lambda in tenths, cosines in hundredths)
mmrScore(candidates, query, lambda, i, selected) ==
    LET relevance == cosine(candidates[i], query)
        redundancy == IF Len(selected) > 0 THEN maxSimilarity(candidates, i, selected)
                      ELSE 0
    IN  lambda * relevance - (10 - lambda) * redundancy

\* `unused` in iteration order: a Set iterates in insertion order, which is
\* index order, and delete keeps the order of what remains.
unusedOf(candidates, selected) ==
    LET NotSelected(i) == i \notin Range(selected)
    IN  SelectSeq([i \in 1..Len(candidates) |-> i], NotSelected)

\* the inner for-loop over `rest` of unused: bestIdx, with 0 for the code's -1
\* (bestScore is -Infinity exactly while bestIdx is -1)
RECURSIVE scanUnused(_, _, _, _, _, _, _)
scanUnused(candidates, query, lambda, selected, rest, bestIdx, bestScore) ==
    IF rest = <<>> THEN bestIdx
    ELSE LET score == mmrScore(candidates, query, lambda, rest[1], selected)
         IN  IF bestIdx = 0 \/ score > bestScore
             THEN scanUnused(candidates, query, lambda, selected, Tail(rest),
                             rest[1], score)
             ELSE scanUnused(candidates, query, lambda, selected, Tail(rest),
                             bestIdx, bestScore)

\* the while-loop of maximalMarginalRelevance, from `selected` on
RECURSIVE mmrLoop(_, _, _, _, _)
mmrLoop(candidates, query, lambda, k, selected) ==
    IF Len(selected) < Min(k, Len(candidates))
    THEN LET bestIdx == scanUnused(candidates, query, lambda, selected,
                                   unusedOf(candidates, selected), 0, 0)
         IN  IF bestIdx = 0 THEN selected
             ELSE mmrLoop(candidates, query, lambda, k, Append(selected, bestIdx))
    ELSE selected

\* maximalMarginalRelevance(candidates, query, lambda, k): selected indices
maximalMarginalRelevance(candidates, query, lambda, k) ==
    mmrLoop(candidates, query, lambda, k, <<>>)

-----------------------------------------------------------------------------
(* The heuristic re-scoring path *)

\* program constants of diversifyResults and execute
maxPerSource == 3
backfillTarget == 10

codeTerms == {"function", "class", "method", "implementation", "code", "api", "library"}
questionWords == {"how", "what", "why", "when", "where", "guide", "tutorial", "documentation"}

\* The factors of calculateAdjustedScore as fractions: content length
\* (1.1 | 0.9 | 1 over 10), code terms (1.2 | 1 over 10), question words
\* (1.15 | 1 over 20), exact matches (1 + (m / w) * 0.1 over 10 w), section
\* (1.05 | 1 over 20).
lengthFactor(result) ==
    IF Contents[result.content].length > 500 THEN 11
    ELSE IF Contents[result.content].length < 100 THEN 9 ELSE 10

codeFactor(result, query) ==
    LET hasCodeTerms == \E term \in codeTerms :
            term \in Range(query) \/ term \in Contents[result.content].words
    IN  IF hasCodeTerms /\ result.source.type = "github" THEN 12 ELSE 10

questionFactor(result, query) ==
    LET hasQuestionWords == \E word \in questionWords : word \in Range(query)
    IN  IF hasQuestionWords /\ result.source.type = "documentation" THEN 23 ELSE 20

exactMatchFactor(result, query) ==
    LET exactMatches == Cardinality({p \in 1..Len(query) :
                                        query[p] \in Contents[result.content].words})
    IN  10 * Len(query) + exactMatches

sectionFactor(result) == IF result.metadata.section THEN 21 ELSE 20

\* the common denominator of the product of the factors, for one query
adjustedDenominator(query) == 10 * 10 * 20 * (10 * Len(query)) * 20

\* calculateAdjustedScore(result, query): Math.min(score, 1.0), as a numerator
\* over 100 * adjustedDenominator(query)
calculateAdjustedScore(result, query) ==
    Min(result.score * lengthFactor(result) * codeFactor(result, query)
            * questionFactor(result, query) * exactMatchFactor(result, query)
            * sectionFactor(result),
        100 * adjustedDenominator(query))

\* scoredResults.sort((a, b) => b.adjustedScore - a.adjustedScore): a stable
\* sort, descending.  insertSorted puts r after every element that is not
\* smaller, which keeps the input order among equals.
RECURSIVE insertSorted(_, _)
insertSorted(sorted, r) ==
    IF sorted = <<>> THEN <<r>>
    ELSE IF sorted[1].adjustedScore >= r.adjustedScore
         THEN <<sorted[1]>> \o insertSorted(Tail(sorted), r)
         ELSE <<r>> \o sorted

RECURSIVE sortByAdjustedScore(_)
sortByAdjustedScore(results) ==
    IF results = <<>> THEN <<>>
    ELSE insertSorted(sortByAdjustedScore(SubSeq(results, 1, Len(results) - 1)),
                      results[Len(results)])

\* first loop of diversifyResults: at most maxPerSource results per source url
RECURSIVE capPerSource(_, _)
capPerSource(results, diversified) ==
    IF results = <<>> THEN diversified
    ELSE LET sourceKey == results[1].source.url
             currentCount == Cardinality({p \in 1..Len(diversified) :
                                             diversified[p].source.url = sourceKey})
         IN  IF currentCount < maxPerSource
             THEN capPerSource(Tail(results), Append(diversified, results[1]))
             ELSE capPerSource(Tail(results), diversified)

\* diversifyResults(results)
diversifyResults(results) ==
    LET diversified == capPerSource(results, <<>>)
        NotIncluded(r) == \A p \in 1..Len(diversified) : diversified[p].ref # r.ref
        remaining == SelectSeq(results, NotIncluded)
        additionalCount == Min(Len(remaining), backfillTarget - Len(diversified))
    IN  IF Len(diversified) < Len(results) /\ Len(diversified) < backfillTarget
        THEN diversified \o SubSeq(remaining, 1, additionalCount)
        ELSE diversified

\* projectResult that reports the adjusted score
projectResult_Adjusted(result) ==
    [ ref |-> result.ref, content |-> result.content, source |-> result.source,
      metadata |-> result.metadata, score |-> result.adjustedScore ]

\* the final map of rankAndDiversifyResults: the fields of a returned result
projectResult(result) ==
    [ ref |-> result.ref, content |-> result.content, source |-> result.source,
      metadata |-> result.metadata, score |-> result.score ]

\* rankAndDiversifyResults(results, query)
rankAndDiversifyResults(results, query) ==
    LET scoredResults ==
            [i \in 1..Len(results) |->
                [ ref |-> results[i].ref, content |-> results[i].content,
                  source |-> results[i].source, metadata |-> results[i].metadata,
                  score |-> results[i].score,
                  adjustedScore |-> calculateAdjustedScore(results[i], query) ]]
        diversifiedResults == diversifyResults(sortByAdjustedScore(scoredResults))
    IN  [i \in 1..Len(diversifiedResults) |-> projectResult(diversifiedResults[i])]

-----------------------------------------------------------------------------
(* execute, lines 109-122, and the request handler *)

\* clamp of input.mmrLambda: Math.max(0, Math.min(1, input.mmrLambda ?? 0.5))
lambdaOf(in) == Max(0, Min(10, in.mmrLambda))

\* rankedResults of execute, from filteredVectors
rankResults(vectors, in, embedding) ==
    LET searchResults == convertToSearchResults(vectors)
    IN  IF haveValues(vectors)
        THEN LET k == Min(baseMaxResults(in), Len(searchResults))
                 selectedIdxs == maximalMarginalRelevance(
                     [i \in 1..Len(vectors) |-> vectors[i].values],
                     embedding, lambdaOf(in), k)
             IN  [p \in 1..Len(selectedIdxs) |-> searchResults[selectedIdxs[p]]]
        ELSE rankAndDiversifyResults(searchResults, in.query)

NoArgs == [candidates |-> <<>>, query |-> <<>>, lambda |-> 0, k |-> 0]

\* the messages of a returned value; the count of `Found n relevant results`
\* is totalResults, the error text of `Search failed: ...` is the provider's
NoResultsMessage ==
    "No relevant results found. Try adjusting your query or lowering the similarity threshold."
FoundMessage == "Found n relevant results"
FailedMessage == "Search failed: errorMessage"

\* searchResponse that reports an empty result list as a failure
searchResponse_EmptyFails(ranked) ==
    IF Len(ranked) = 0
    THEN [success |-> FALSE, message |-> FailedMessage, results |-> <<>>,
          totalResults |-> 0]
    ELSE [success |-> TRUE, message |-> FoundMessage, results |-> ranked,
          totalResults |-> Len(ranked)]

\* execute, lines 123-139: the value returned after ranking
searchResponse(ranked) ==
    IF Len(ranked) = 0
    THEN [success |-> TRUE, message |-> NoResultsMessage, results |-> <<>>,
          totalResults |-> 0]
    ELSE [success |-> TRUE, message |-> FoundMessage, results |-> ranked,
          totalResults |-> Len(ranked)]

\* execute, lines 141-152: the value returned from the catch block
errorResponse == [success |-> FALSE, message |-> FailedMessage]

\* the options of the call at lines 87-93
queryOptions(in) == [topK |-> topK(in), threshold |-> 0, includeValues |-> TRUE]

NoQuery == [topK |-> 0, threshold |-> 0, includeValues |-> FALSE]
NoCalls == [embedding |-> 0, query |-> 0, failed |-> "none"]

\* no search request is being served
SearchOff ==
    /\ pc = "idle"
    /\ input = NoInput
    /\ queryEmbedding = <<>>
    /\ vectorResults = <<>>
    /\ cutoff = 0
    /\ filteredVectors = <<>>
    /\ rankedResults = <<>>
    /\ totalResults = 0
    /\ success = FALSE
    /\ message = ""
    /\ issuedQuery = NoQuery
    /\ calls = NoCalls

\* no direct call of maximalMarginalRelevance is running
MmrOff ==
    /\ mmrPc = "off"
    /\ mmrArgs = NoArgs
    /\ mmrSelected = <<>>

\* no direct call of a cosine function is running
CosOff ==
    /\ cosPc = "off"
    /\ cosArgs = [fn |-> "none", a |-> <<>>, b |-> <<>>]
    /\ cosResult = [kind |-> "none", value |-> 0]

\* the sources the tools index and delete
Sources == {"urlA", "urlB"}

\* removed counts the vectors of the source the call has deleted so far;
\* deletedChunks is the local of that name in deleteSourceByUrl
NoTool == [tool |-> "none", pc |-> "idle", url |-> "none", n |-> 0,
           initialVectorCount |-> 0, failed |-> "none",
           removed |-> 0, deletedChunks |-> 0]
NoResult == [kind |-> "none", success |-> FALSE]

\* no index_source, index_local or delete_source call is running
ToolOff ==
    /\ toolCall = NoTool
    /\ toolResult = NoResult
    /\ store = [u \in Sources |-> 0]

\* rechunkDocumentation is not running
ChunkOff ==
    /\ chunkPc = "off"
    /\ chunkArgs = [length |-> 0, tokensPerChunk |-> 0]
    /\ pos = 0
    /\ chunks = <<>>

\* the cache specification is not running
CacheOff ==
    /\ embeddingCache = <<>>
    /\ requests = <<>>

\* IndexLocalTool.execute is not running
NoLocalResult == [kind |-> "none", success |-> FALSE, chunksIndexed |-> 0,
                  warnings |-> <<>>]

LocalOff ==
    /\ localPc = "off"
    /\ files = <<>>
    /\ fileIdx = 0
    /\ codeFiles = <<>>
    /\ localChunks = <<>>
    /\ localResult = NoLocalResult

\* generateEmbeddings is not running
NoEmbedArgs == [service |-> "none", texts |-> <<>>, batchSize |-> 0]

EmbedOff ==
    /\ embPc = "off"
    /\ embArgs = NoEmbedArgs
    /\ validTexts = <<>>
    /\ embResults = <<>>
    /\ embReturn = [kind |-> "none", value |-> <<>>]

\* upsertVectors is not running
NoUpsertArgs == [n |-> 0, batchSize |-> 0]
NoUpsertResult == [upsert |-> "none", success |-> FALSE]

UpsertOff ==
    /\ upPc = "off"
    /\ upArgs = NoUpsertArgs
    /\ batchIdx = 0
    /\ retryCount = 0
    /\ upLog = <<>>
    /\ upStored = {}
    /\ upResult = NoUpsertResult

\* no registry update is running
RegistryOff ==
    /\ registryFile = [exists |-> FALSE, entries |-> <<>>]
    /\ registryBefore = <<>>
    /\ registryRuns = <<>>

\* the indexing of a crawled site is not running
IdOff ==
    /\ idPc = "off"
    /\ idArgs = [url |-> "none", results |-> <<>>, tokensPerChunk |-> 0]
    /\ pageIdx = 0
    /\ pagePos = 0
    /\ idx = 0
    /\ chunkIds = <<>>

ExtOff == LocalOff /\ EmbedOff /\ UpsertOff /\ RegistryOff /\ IdOff

AuxOff == CosOff /\ ToolOff /\ ChunkOff /\ CacheOff /\ ExtOff

Init == SearchOff /\ MmrOff /\ AuxOff

\* SearchContextTool.execute(input), lines 60-93: the request arrives, its
\* query is embedded and the oversampled similarity query is issued
Execute ==
    /\ pc = "idle"
    /\ \E in \in Inputs :
        /\ input' = in
        /\ queryEmbedding' = generateQueryEmbedding(in.query)
        /\ issuedQuery' = queryOptions(in)
    /\ calls' = [embedding |-> 1, query |-> 1, failed |-> "none"]
    /\ pc' = "querying"
    /\ UNCHANGED <<vectorResults, cutoff, filteredVectors, rankedResults,
                   totalResults, success, message, mmrVars, auxVars>>

\* execute, lines 60-68 and 141-152: generateQueryEmbedding rejects (an empty
\* query, a provider error); the catch block builds the returned value
ExecuteEmbedFails ==
    /\ pc = "idle"
    /\ \E in \in Inputs : input' = in
    /\ calls' = [embedding |-> 1, query |-> 0, failed |-> "embedding"]
    /\ success' = errorResponse.success
    /\ message' = errorResponse.message
    /\ pc' = "done"
    /\ UNCHANGED <<queryEmbedding, vectorResults, cutoff, filteredVectors,
                   rankedResults, totalResults, issuedQuery, mmrVars, auxVars>>

\* execute, lines 87-139: queryVectors answers; the answer is thresholded,
\* converted and re-ranked, and the result is built
Rerank ==
    /\ pc = "querying"
    /\ \E answer \in queryVectors(input) :
        LET filtered == thresholdStep(answer, input)
            ranked == rankResults(filtered, input, queryEmbedding)
            response == searchResponse(ranked)
        IN  /\ vectorResults' = answer
            /\ cutoff' = adaptiveCutoff(answer, input)
            /\ filteredVectors' = filtered
            /\ rankedResults' = response.results
            /\ totalResults' = response.totalResults
            /\ success' = response.success
            /\ message' = response.message
    /\ pc' = "done"
    /\ UNCHANGED <<input, queryEmbedding, issuedQuery, calls, mmrVars, auxVars>>

\* execute, lines 87-93 and 141-152: queryVectors rejects; the catch block
\* builds the returned value
QueryFails ==
    /\ pc = "querying"
    /\ calls' = [calls EXCEPT !.failed = "query"]
    /\ success' = errorResponse.success
    /\ message' = errorResponse.message
    /\ pc' = "done"
    /\ UNCHANGED <<input, queryEmbedding, vectorResults, cutoff, filteredVectors,
                   rankedResults, totalResults, issuedQuery, mmrVars, auxVars>>

\* the caller takes the returned value; the tool is ready for the next request
Return ==
    /\ pc = "done"
    /\ pc' = "idle"
    /\ input' = NoInput
    /\ queryEmbedding' = <<>>
    /\ vectorResults' = <<>>
    /\ cutoff' = 0
    /\ filteredVectors' = <<>>
    /\ rankedResults' = <<>>
    /\ totalResults' = 0
    /\ success' = FALSE
    /\ message' = ""
    /\ issuedQuery' = NoQuery
    /\ calls' = NoCalls
    /\ UNCHANGED <<mmrVars, auxVars>>

Next == Execute \/ ExecuteEmbedFails \/ Rerank \/ QueryFails \/ Return

Spec == Init /\ [][Next]_vars

-----------------------------------------------------------------------------
(* maximalMarginalRelevance on its own: one call, one loop iteration a step *)

\* the vectors a direct call is given
MmrVectors == { <<3, 4>>, <<4, 3>>, <<1, 0>>, <<0, 0>> }

RECURSIVE VectorSeqs(_)
VectorSeqs(n) ==
    IF n = 0 THEN {<<>>}
    ELSE {Append(s, v) : s \in VectorSeqs(n - 1), v \in MmrVectors}

MmrCalls ==
    [ candidates : UNION {VectorSeqs(n) : n \in 0..MaxMmrCands},
      query : {<<3, 4>>, <<1, 0>>},
      lambda : {0, 5, 10},
      k : 0..MaxMmrCands ]

MmrInit ==
    /\ SearchOff
    /\ AuxOff
    /\ mmrPc = "loop"
    /\ mmrArgs \in MmrCalls
    /\ mmrSelected = <<>>

\* one iteration of `while (mmrSelected.length < Math.min(k, candidates.length))`
MmrPick ==
    /\ mmrPc = "loop"
    /\ Len(mmrSelected) < Min(mmrArgs.k, Len(mmrArgs.candidates))
    /\ LET bestIdx == scanUnused(mmrArgs.candidates, mmrArgs.query, mmrArgs.lambda,
                                 mmrSelected, unusedOf(mmrArgs.candidates, mmrSelected), 0, 0)
       IN  IF bestIdx = 0
           THEN mmrPc' = "done" /\ mmrSelected' = mmrSelected
           ELSE mmrPc' = "loop" /\ mmrSelected' = Append(mmrSelected, bestIdx)
    /\ UNCHANGED <<mmrArgs, searchVars, auxVars>>

\* the loop condition fails: return mmrSelected
MmrReturn ==
    /\ mmrPc = "loop"
    /\ ~(Len(mmrSelected) < Min(mmrArgs.k, Len(mmrArgs.candidates)))
    /\ mmrPc' = "done"
    /\ UNCHANGED <<mmrArgs, mmrSelected, searchVars, auxVars>>

MmrNext == MmrPick \/ MmrReturn

MmrSpec == MmrInit /\ [][MmrNext]_vars

-----------------------------------------------------------------------------
(* The two cosine functions on their own: one call, one step *)

\* the vectors a direct call is given: empty, zero and non-zero vectors of
\* one, two and three components
CosVectors ==
    { <<>>, <<0>>, <<1>>, <<0, 0>>, <<3, 4>>, <<4, 3>>, <<1, 0>>, <<0, 1>>,
      <<0, 0, 0>> }

CosCalls == [fn : {"cosine", "cosineSimilarity"}, a : CosVectors, b : CosVectors]

\* what a call produces: a number (in hundredths), NaN, or a thrown Error
NumberResult(v) == [kind |-> "number", value |-> v]
NaNResult == [kind |-> "NaN", value |-> 0]
ErrorResult == [kind |-> "error", value |-> 0]

\* cosineSimilarity without its zero-norm test: 0 / 0 is NaN
cosineSimilarity_NoZeroGuard(a, b) ==
    IF Len(a) # Len(b) THEN ErrorResult
    ELSE LET dotProduct == SumSeq([i \in 1..Len(a) |-> a[i] * b[i]])
             normA == Sqrt(SumSeq([i \in 1..Len(a) |-> a[i] * a[i]]))
             normB == Sqrt(SumSeq([i \in 1..Len(a) |-> b[i] * b[i]]))
         IN  IF normA * normB = 0 THEN NaNResult
             ELSE NumberResult((dotProduct * 100) \div (normA * normB))

\* EmbeddingService.cosineSimilarity(a, b)
cosineSimilarity(a, b) ==
    IF Len(a) # Len(b) THEN ErrorResult
    ELSE LET dotProduct == SumSeq([i \in 1..Len(a) |-> a[i] * b[i]])
             normA == Sqrt(SumSeq([i \in 1..Len(a) |-> a[i] * a[i]]))
             normB == Sqrt(SumSeq([i \in 1..Len(a) |-> b[i] * b[i]]))
         IN  IF normA = 0 \/ normB = 0 THEN NumberResult(0)
             ELSE NumberResult((dotProduct * 100) \div (normA * normB))

CosInit ==
    /\ SearchOff
    /\ MmrOff
    /\ ToolOff
    /\ ChunkOff
    /\ CacheOff
    /\ ExtOff
    /\ cosPc = "called"
    /\ cosArgs \in CosCalls
    /\ cosResult = [kind |-> "none", value |-> 0]

\* SearchContextTool.cosine(a, b) returns
CosineCall ==
    /\ cosPc = "called"
    /\ cosArgs.fn = "cosine"
    /\ cosResult' = NumberResult(cosine(cosArgs.a, cosArgs.b))
    /\ cosPc' = "returned"
    /\ UNCHANGED <<cosArgs, searchVars, mmrVars, toolVars, chunkVars, cacheVars, extVars>>

\* EmbeddingService.cosineSimilarity(a, b) returns or throws
CosineSimilarityCall ==
    /\ cosPc = "called"
    /\ cosArgs.fn = "cosineSimilarity"
    /\ cosResult' = cosineSimilarity(cosArgs.a, cosArgs.b)
    /\ cosPc' = "returned"
    /\ UNCHANGED <<cosArgs, searchVars, mmrVars, toolVars, chunkVars, cacheVars, extVars>>

CosNext == CosineCall \/ CosineSimilarityCall

CosineSpec == CosInit /\ [][CosNext]_vars

-----------------------------------------------------------------------------
(* The indexing and deleting tools: IndexSourceTool, IndexLocalTool and      *)
(* DeleteSourceTool, one call at a time, one step per awaited provider call *)

\* largest number of chunks one indexing run produces
MaxChunks == 3
\* topK of the filtered queries of deleteByFilter: 200 in the program, the
\* page size explored here
deleteTopK == 2

toolOthers == <<searchVars, mmrVars, cosVars, chunkVars, cacheVars, extVars>>

\* how a call ends: execute's promise resolves with {success, message}, or it
\* rejects
Returned(ok) == [kind |-> "returned", success |-> ok]
Rejected == [kind |-> "rejected", success |-> FALSE]

\* stats.totalRecordCount: the number of vectors in the index
RECURSIVE SumOver(_, _)
SumOver(st, urls) ==
    IF urls = {} THEN 0
    ELSE LET u == CHOOSE y \in urls : TRUE
         IN  st[u] + SumOver(st, urls \ {u})

totalVectors(st) == SumOver(st, Sources)

\* IndexSourceTool.execute: a throw inside the try block reaches the catch
\* block, which returns a failure value
indexSourceOnError == Returned(FALSE)

\* IndexLocalTool.execute has no try block around its awaits: a rejected
\* provider call rejects execute
indexLocalOnError == Rejected

\* DeleteSourceTool.execute returns the promise of deleteSourceByUrl without
\* awaiting it, so the Error deleteSourceByUrl rethrows passes execute's catch
\* block by and rejects execute
deleteSourceOnError == Rejected

onError(tool) ==
    IF tool = "index_source" THEN indexSourceOnError
    ELSE IF tool = "index_local" THEN indexLocalOnError
    ELSE deleteSourceOnError

ToolInit ==
    /\ SearchOff
    /\ MmrOff
    /\ CosOff
    /\ ChunkOff
    /\ CacheOff
    /\ ExtOff
    /\ ToolOff

noContentResult_Success == Returned(TRUE)

\* `if (chunks.length === 0) return { success: false, message: 'No content
\* found to index. Check URL and filters.' }` (index_source), `'No eligible
\* files found to index'` (index_local)
noContentResult == Returned(FALSE)

\* index_source / index_local is called; the content is read and chunked into
\* n chunks (none when there is no document or every document is empty).  No
\* chunk: a failure value is returned.
IndexStart ==
    /\ toolCall.pc = "idle"
    /\ \E tool \in {"index_source", "index_local"}, url \in Sources, n \in 0..MaxChunks :
        IF n = 0
        THEN /\ toolCall' = [NoTool EXCEPT !.tool = tool, !.pc = "done", !.url = url]
             /\ toolResult' = noContentResult
        ELSE /\ toolCall' = [NoTool EXCEPT !.tool = tool, !.pc = "embedding",
                                           !.url = url, !.n = n]
             /\ toolResult' = toolResult
    /\ UNCHANGED <<store, toolOthers>>

\* reading the content fails: the repository or site cannot be fetched
\* (index_source, caught), the path does not exist (index_local, `Path not
\* found`)
IndexFetchFails ==
    /\ toolCall.pc = "idle"
    /\ \E tool \in {"index_source", "index_local"}, url \in Sources :
        toolCall' = [NoTool EXCEPT !.tool = tool, !.pc = "done", !.url = url,
                                   !.failed = "fetch"]
    /\ toolResult' = Returned(FALSE)
    /\ UNCHANGED <<store, toolOthers>>

\* generateEmbeddings(texts) resolves; upsertVectors is called
IndexEmbedded ==
    /\ toolCall.pc = "embedding"
    /\ toolCall' = [toolCall EXCEPT !.pc = "upserting"]
    /\ UNCHANGED <<toolResult, store, toolOthers>>

\* generateEmbeddings(texts) rejects
IndexEmbedFails ==
    /\ toolCall.pc = "embedding"
    /\ toolCall' = [toolCall EXCEPT !.pc = "done", !.failed = "embedding"]
    /\ toolResult' = onError(toolCall.tool)
    /\ UNCHANGED <<store, toolOthers>>

\* upsertVectors(vectors) resolves: the run's n vectors are in the index under
\* their chunk ids, over those of an earlier run of the same source
IndexStored ==
    /\ toolCall.pc = "upserting"
    /\ store' = [store EXCEPT ![toolCall.url] = Max(@, toolCall.n)]
    /\ toolCall' = [toolCall EXCEPT !.pc = "done"]
    /\ toolResult' = Returned(TRUE)
    /\ UNCHANGED toolOthers

\* upsertVectors(vectors) rejects, after any part of the vectors was written
IndexStoreFails ==
    /\ toolCall.pc = "upserting"
    /\ \E k \in 0..toolCall.n :
        store' = [store EXCEPT ![toolCall.url] = Max(@, k)]
    /\ toolCall' = [toolCall EXCEPT !.pc = "done", !.failed = "upsert"]
    /\ toolResult' = onError(toolCall.tool)
    /\ UNCHANGED toolOthers

\* delete_source is called; findSourceById / findSourceByUrl look the source
\* up among the sources list_sources discovers by sampling the index (a source
\* without vectors is never found, one with vectors may be missed).  Not
\* found: a failure value is returned.
DeleteStart ==
    /\ toolCall.pc = "idle"
    /\ \E url \in Sources, found \in BOOLEAN :
        /\ found => store[url] > 0
        /\ IF found
           THEN /\ toolCall' = [NoTool EXCEPT !.tool = "delete_source",
                                              !.pc = "stats", !.url = url]
                /\ toolResult' = toolResult
           ELSE /\ toolCall' = [NoTool EXCEPT !.tool = "delete_source",
                                              !.pc = "done", !.url = url]
                /\ toolResult' = Returned(FALSE)
    /\ UNCHANGED <<store, toolOthers>>

\* deleteSourceByUrl: the first getIndexStats resolves
DeleteStatsRead ==
    /\ toolCall.pc = "stats"
    /\ toolCall' = [toolCall EXCEPT !.pc = "deleting",
                                    !.initialVectorCount = totalVectors(store)]
    /\ UNCHANGED <<toolResult, store, toolOthers>>

\* deleteSourceByUrl: the first getIndexStats rejects
DeleteStatsFails ==
    /\ toolCall.pc = "stats"
    /\ toolCall' = [toolCall EXCEPT !.pc = "done", !.failed = "stats"]
    /\ toolResult' = onError(toolCall.tool)
    /\ UNCHANGED <<store, toolOthers>>

\* the ids a filtered query of deleteByFilter returns when count vectors match:
\* at most topK of them
queryPage(count) == Min(deleteTopK, count)

lastPage_AfterFirst(n) == TRUE

\* `if (!ids.length) break` and `if (ids.length < 200) break`
lastPage(n) == n = 0 \/ n < deleteTopK

\* deleteByFilter({sourceUrl}), one iteration of its loop: the vectors of the
\* source are queried, the ids returned are deleted, and the loop ends after a
\* page that was not full (deleteByFilter resolves)
DeleteFiltered ==
    /\ toolCall.pc = "deleting"
    /\ LET ids == queryPage(store[toolCall.url])
       IN  /\ store' = [store EXCEPT ![toolCall.url] = @ - ids]
           /\ toolCall' = [toolCall EXCEPT
                              !.pc = IF lastPage(ids) THEN "recount" ELSE "deleting",
                              !.removed = @ + ids]
    /\ UNCHANGED <<toolResult, toolOthers>>

\* deleteByFilter({sourceUrl}) rejects, after any part of the vectors was
\* removed
DeleteFilterFails ==
    /\ toolCall.pc = "deleting"
    /\ \E k \in 0..store[toolCall.url] :
        /\ store' = [store EXCEPT ![toolCall.url] = k]
        /\ toolCall' = [toolCall EXCEPT !.pc = "done", !.failed = "delete",
                                        !.removed = @ + store[toolCall.url] - k]
    /\ toolResult' = onError(toolCall.tool)
    /\ UNCHANGED toolOthers

\* the second getIndexStats resolves: deletedChunks is the difference of the
\* two counts, and success is deletedChunks !== 0
DeleteCounted ==
    /\ toolCall.pc = "recount"
    /\ LET deletedChunks == toolCall.initialVectorCount - totalVectors(store)
       IN  /\ toolResult' = Returned(deletedChunks # 0)
           /\ toolCall' = [toolCall EXCEPT !.pc = "done",
                                           !.deletedChunks = deletedChunks]
    /\ UNCHANGED <<store, toolOthers>>

\* the second getIndexStats rejects
DeleteRecountFails ==
    /\ toolCall.pc = "recount"
    /\ toolCall' = [toolCall EXCEPT !.pc = "done", !.failed = "stats"]
    /\ toolResult' = onError(toolCall.tool)
    /\ UNCHANGED <<store, toolOthers>>

\* the caller has the outcome; the next call can be made
ToolReturn ==
    /\ toolCall.pc = "done"
    /\ toolCall' = NoTool
    /\ toolResult' = NoResult
    /\ UNCHANGED <<store, toolOthers>>

ToolNext ==
    \/ IndexStart \/ IndexFetchFails \/ IndexEmbedded \/ IndexEmbedFails
    \/ IndexStored \/ IndexStoreFails
    \/ DeleteStart \/ DeleteStatsRead \/ DeleteStatsFails \/ DeleteFiltered
    \/ DeleteFilterFails \/ DeleteCounted \/ DeleteRecountFails
    \/ ToolReturn

ToolSpec == ToolInit /\ [][ToolNext]_vars

-----------------------------------------------------------------------------
(* The tools under concurrent calls: while a delete_source call is between  *)
(* its awaits (the two getIndexStats, the requests of deleteByFilter),      *)
(* another call, for another source, has its own provider requests          *)
(* answered.                                                                *)

\* the delete_source call is suspended in one of its awaits
DeleteRunning ==
    /\ toolCall.tool = "delete_source"
    /\ toolCall.pc \in {"stats", "deleting", "recount"}

\* a concurrent index_source / index_local run for another source has its
\* upsertVectors answered
OtherSourceIndexed ==
    /\ DeleteRunning
    /\ \E u \in Sources \ {toolCall.url}, n \in 1..MaxChunks :
        store' = [store EXCEPT ![u] = Max(@, n)]
    /\ UNCHANGED <<toolCall, toolResult, toolOthers>>

\* a concurrent delete_source call for another source has its deleteByFilter
\* answered
OtherSourceDeleted ==
    /\ DeleteRunning
    /\ \E u \in Sources \ {toolCall.url} :
        /\ store[u] > 0
        /\ store' = [store EXCEPT ![u] = 0]
    /\ UNCHANGED <<toolCall, toolResult, toolOthers>>

ConcNext == ToolNext \/ OtherSourceIndexed \/ OtherSourceDeleted

ConcSpec == ToolInit /\ [][ConcNext]_vars

-----------------------------------------------------------------------------
(* The query-embedding cache of execute, lines 64-76, under concurrent      *)
(* requests.  A request is a step up to its await of generateQueryEmbedding *)
(* and a step from there on; what it does after the cache is left out.      *)

\* SearchContextTool.maxCacheEntries is 256 in the program; the capacity
\* explored here
maxCacheEntries == 2
\* number of requests that can be in flight at once
MaxInFlight == 2
\* longest query text, in characters
MaxQueryLen == 1

cacheOthers == <<searchVars, mmrVars, cosVars, toolVars, chunkVars, extVars>>

\* query texts as sequences of characters: blank, lower and upper case
QueryChars == {" ", "a", "A", "b"}

RECURSIVE TextsOfLen(_)
TextsOfLen(n) ==
    IF n = 0 THEN {<<>>}
    ELSE {Append(t, c) : t \in TextsOfLen(n - 1), c \in QueryChars}

QueryTexts == UNION {TextsOfLen(n) : n \in 0..MaxQueryLen}

\* String.prototype.trim
RECURSIVE trimStart(_)
trimStart(t) == IF t # <<>> /\ t[1] = " " THEN trimStart(Tail(t)) ELSE t

RECURSIVE trimEnd(_)
trimEnd(t) ==
    IF t # <<>> /\ t[Len(t)] = " " THEN trimEnd(SubSeq(t, 1, Len(t) - 1)) ELSE t

trim(t) == trimEnd(trimStart(t))

\* String.prototype.toLowerCase
toLowerCase(t) == [i \in 1..Len(t) |-> IF t[i] = "A" THEN "a" ELSE t[i]]

\* replace(/\s+/g, ' ')
RECURSIVE collapseWhitespace(_)
collapseWhitespace(t) ==
    IF Len(t) < 2 THEN t
    ELSE IF t[1] = " " /\ t[2] = " " THEN collapseWhitespace(Tail(t))
         ELSE <<t[1]>> \o collapseWhitespace(Tail(t))

\* const normalizedQuery = input.query.trim().toLowerCase().replace(/\s+/g, ' ')
normalizeQuery(t) == collapseWhitespace(toLowerCase(trim(t)))

\* truthiness of a string: the empty string is falsy
truthy(key) == key # <<>>

\* Map.prototype.set on the keys: a new key goes last, a present key keeps
\* its place
mapSet(cache, key) == IF key \in Range(cache) THEN cache ELSE Append(cache, key)

\* lines 70-75: the eviction test, the eviction and the insertion
cacheInsert(cache, key) ==
    LET evicted ==
            IF Len(cache) >= maxCacheEntries /\ cache # <<>> /\ truthy(cache[1])
            THEN Tail(cache)
            ELSE cache
    IN  mapSet(evicted, key)

IdleRequest == [pc |-> "idle", query |-> <<>>]

CacheInit ==
    /\ SearchOff
    /\ MmrOff
    /\ CosOff
    /\ ToolOff
    /\ ChunkOff
    /\ ExtOff
    /\ embeddingCache = <<>>
    /\ requests = [r \in 1..MaxInFlight |-> IdleRequest]

\* lines 60-66, the embedding is cached: the request goes on with it
CacheHit ==
    \E r \in 1..MaxInFlight, text \in QueryTexts :
        /\ requests[r].pc = "idle"
        /\ normalizeQuery(text) \in Range(embeddingCache)
        /\ requests' = [requests EXCEPT ![r] = [pc |-> "querying",
                                                query |-> normalizeQuery(text)]]
        /\ UNCHANGED <<embeddingCache, cacheOthers>>

\* lines 60-68, the embedding is not cached: generateQueryEmbedding is awaited
CacheMiss ==
    \E r \in 1..MaxInFlight, text \in QueryTexts :
        /\ requests[r].pc = "idle"
        /\ normalizeQuery(text) \notin Range(embeddingCache)
        /\ requests' = [requests EXCEPT ![r] = [pc |-> "embedding",
                                                query |-> normalizeQuery(text)]]
        /\ UNCHANGED <<embeddingCache, cacheOthers>>

\* lines 68-76: generateQueryEmbedding resolves; the embedding is cached
CacheInsert ==
    \E r \in 1..MaxInFlight :
        /\ requests[r].pc = "embedding"
        /\ embeddingCache' = cacheInsert(embeddingCache, requests[r].query)
        /\ requests' = [requests EXCEPT ![r].pc = "querying"]
        /\ UNCHANGED cacheOthers

\* line 68 and 141-152: generateQueryEmbedding rejects; the request ends
CacheEmbedFails ==
    \E r \in 1..MaxInFlight :
        /\ requests[r].pc = "embedding"
        /\ requests' = [requests EXCEPT ![r] = IdleRequest]
        /\ UNCHANGED <<embeddingCache, cacheOthers>>

\* the rest of execute: the request ends
CacheFinish ==
    \E r \in 1..MaxInFlight :
        /\ requests[r].pc = "querying"
        /\ requests' = [requests EXCEPT ![r] = IdleRequest]
        /\ UNCHANGED <<embeddingCache, cacheOthers>>

CacheNext == CacheHit \/ CacheMiss \/ CacheInsert \/ CacheEmbedFails \/ CacheFinish

CacheSpec == CacheInit /\ [][CacheNext]_vars

(***************************************************************************)
(* IndexSourceTool.rechunkDocumentation on one page: character windows of  *)
(* approxChars characters, each starting overlap characters before the end *)
(* of the previous one.  A chunk is the pair of offsets of its slice.      *)
(***************************************************************************)
MaxPageLen == 140
MaxWindows == 4

chunkOthers == <<searchVars, mmrVars, cosVars, toolVars, cacheVars, extVars>>

TokensPerChunk == {1, 32, 40}

\* Math.max(128, Math.floor(tokensPerChunk * 4))
approxChars(tokensPerChunk) == Max(128, 4 * tokensPerChunk)

\* Math.floor(approxChars * 0.1)
overlap(tokensPerChunk) == approxChars(tokensPerChunk) \div 10

\* Math.min(page.content.length, pos + approxChars)
windowEnd(args, p) == Min(args.length, p + approxChars(args.tokensPerChunk))

\* pos = end - overlap; if (pos <= 0) pos = end
nextPos(args, p) ==
    LET end == windowEnd(args, p)
        back == end - overlap(args.tokensPerChunk)
    IN  IF back <= 0 THEN end ELSE back

ChunkInit ==
    /\ SearchOff
    /\ MmrOff
    /\ CosOff
    /\ ToolOff
    /\ CacheOff
    /\ ExtOff
    /\ chunkPc = "loop"
    /\ chunkArgs \in [length : 0..MaxPageLen, tokensPerChunk : TokensPerChunk]
    /\ pos = 0
    /\ chunks = <<>>

\* one iteration of the for loop: push the slice [pos, end) and move pos
ChunkWindow ==
    /\ chunkPc = "loop"
    /\ pos < chunkArgs.length
    /\ Len(chunks) < MaxWindows
    /\ chunks' = Append(chunks, [start |-> pos, end |-> windowEnd(chunkArgs, pos)])
    /\ pos' = nextPos(chunkArgs, pos)
    /\ UNCHANGED <<chunkPc, chunkArgs, chunkOthers>>

\* the loop condition pos < page.content.length is false
ChunkReturn ==
    /\ chunkPc = "loop"
    /\ pos >= chunkArgs.length
    /\ chunkPc' = "done"
    /\ UNCHANGED <<chunkArgs, pos, chunks, chunkOthers>>

ChunkNext == ChunkWindow \/ ChunkReturn

ChunkSpec == ChunkInit /\ [][ChunkNext]_vars

-----------------------------------------------------------------------------
(* IndexLocalTool.execute on one directory: the files found by walk are     *)
(* read one by one, the files read are chunked one by one, the chunks are   *)
(* embedded and stored.  A file is what reading it does: "ok" (read),       *)
(* "unreadable" (fs.stat or fs.readFile rejects), "toobig" (st.size >       *)
(* maxSize).                                                                *)

\* largest number of files walk finds
MaxFiles == 3

localOthers == <<searchVars, mmrVars, cosVars, toolVars, chunkVars, cacheVars, embVars, upsertVars,
                 registryVars, idVars>>

FileKinds == {"ok", "unreadable", "toobig"}

RECURSIVE FileLists(_)
FileLists(n) ==
    IF n = 0 THEN {<<>>}
    ELSE LET shorter == FileLists(n - 1)
         IN  shorter \cup {Append(fs, k) : fs \in {f \in shorter : Len(f) = n - 1},
                                            k \in FileKinds}

\* the value execute returns: { success, message, chunksIndexed? }.  It has
\* no field for warnings; the files skipped are named nowhere in it.
localReturned(ok, n) ==
    [kind |-> "returned", success |-> ok, chunksIndexed |-> n, warnings |-> <<>>]

\* execute rejects: an await outside any try block rejected
localRejected ==
    [kind |-> "rejected", success |-> FALSE, chunksIndexed |-> 0, warnings |-> <<>>]

LocalInit ==
    /\ SearchOff
    /\ MmrOff
    /\ CosOff
    /\ ToolOff
    /\ ChunkOff
    /\ CacheOff
    /\ EmbedOff
    /\ UpsertOff
    /\ RegistryOff
    /\ IdOff
    /\ localPc = "reading"
    /\ files \in FileLists(MaxFiles)
    /\ fileIdx = 1
    /\ codeFiles = <<>>
    /\ localChunks = <<>>
    /\ localResult = NoLocalResult

\* one iteration of `for (const file of files)`: the file is pushed to
\* codeFiles when it is read; `continue` when it is too big; the empty catch
\* block when stat or readFile rejects
LocalRead ==
    /\ localPc = "reading"
    /\ fileIdx <= Len(files)
    /\ codeFiles' = IF files[fileIdx] = "ok" THEN Append(codeFiles, fileIdx)
                    ELSE codeFiles
    /\ fileIdx' = fileIdx + 1
    /\ UNCHANGED <<localPc, files, localChunks, localResult, localOthers>>

\* the reading loop is over
LocalReadDone ==
    /\ localPc = "reading"
    /\ fileIdx > Len(files)
    /\ localPc' = "chunking"
    /\ fileIdx' = 1
    /\ UNCHANGED <<files, codeFiles, localChunks, localResult, localOthers>>

\* one iteration of `for (const f of codeFiles)`: the chunks of the file are
\* pushed to chunks
LocalChunk ==
    /\ localPc = "chunking"
    /\ fileIdx <= Len(codeFiles)
    /\ localChunks' = Append(localChunks, codeFiles[fileIdx])
    /\ fileIdx' = fileIdx + 1
    /\ UNCHANGED <<localPc, files, codeFiles, localResult, localOthers>>

\* the chunking loop is over: `if (chunks.length === 0) return { success:
\* false, ... }`, else generateEmbeddings is called
LocalChunkDone ==
    /\ localPc = "chunking"
    /\ fileIdx > Len(codeFiles)
    /\ IF localChunks = <<>>
       THEN /\ localPc' = "done"
            /\ localResult' = localReturned(FALSE, 0)
       ELSE /\ localPc' = "embedding"
            /\ localResult' = localResult
    /\ UNCHANGED <<files, fileIdx, codeFiles, localChunks, localOthers>>

\* generateEmbeddings resolves and upsertVectors resolves
LocalStored ==
    /\ localPc = "embedding"
    /\ localPc' = "done"
    /\ localResult' = localReturned(TRUE, Len(localChunks))
    /\ UNCHANGED <<files, fileIdx, codeFiles, localChunks, localOthers>>

\* generateEmbeddings or upsertVectors rejects
LocalStoreFails ==
    /\ localPc = "embedding"
    /\ localPc' = "done"
    /\ localResult' = localRejected
    /\ UNCHANGED <<files, fileIdx, codeFiles, localChunks, localOthers>>

LocalNext ==
    \/ LocalRead \/ LocalReadDone \/ LocalChunk \/ LocalChunkDone
    \/ LocalStored \/ LocalStoreFails

LocalSpec == LocalInit /\ [][LocalNext]_vars

-----------------------------------------------------------------------------
(* generateEmbeddings(texts) of EmbeddingService (batches of batchSize      *)
(* valid texts, results written back by originalIndex) and of               *)
(* OpenAIEmbeddingService (one request with all texts).  A text is a        *)
(* sequence of characters; the provider answers a request with one          *)
(* embedding per input text, in the order of the input.                     *)

\* longest list of texts passed to generateEmbeddings
MaxTexts == 3

embOthers == <<searchVars, mmrVars, cosVars, toolVars, chunkVars, cacheVars, localVars, upsertVars,
               registryVars, idVars>>

EmbedTexts == {<<>>, <<" ">>, <<"a">>, <<"b">>, <<" ", "a">>}

RECURSIVE TextLists(_)
TextLists(n) ==
    IF n = 0 THEN {<<>>}
    ELSE LET shorter == TextLists(n - 1)
         IN  shorter \cup {Append(ts, t) : ts \in {l \in shorter : Len(l) = n - 1},
                                           t \in EmbedTexts}

\* the embedding the provider computes for a text it is sent
embeddingOf(t) == [defined |-> TRUE, of |-> t]

\* the value of an array element that was never assigned
undefined == [defined |-> FALSE, of |-> <<>>]

\* text.replace(/\s+/g, ' ').trim() (the texts here are far shorter than
\* maxLength)
preprocessText(text) == trim(collapseWhitespace(text))

\* `text && text.trim().length > 0`
isValidText(text) == trim(text) # <<>>

\* the forEach that fills validTexts, from index i on
RECURSIVE collectValidTexts(_, _)
collectValidTexts(texts, i) ==
    IF i > Len(texts) THEN <<>>
    ELSE (IF isValidText(texts[i])
          THEN <<[text |-> preprocessText(texts[i]), originalIndex |-> i]>>
          ELSE <<>>) \o collectValidTexts(texts, i + 1)

\* response.data.forEach(... results[originalIndex] = embedding.embedding)
RECURSIVE mapBack(_, _)
mapBack(res, batch) ==
    IF batch = <<>> THEN res
    ELSE mapBack([res EXCEPT ![batch[1].originalIndex] = embeddingOf(batch[1].text)],
                 Tail(batch))

embReturned(value) == [kind |-> "returned", value |-> value]
embRejected == [kind |-> "rejected", value |-> <<>>]

EmbedInit ==
    /\ SearchOff
    /\ MmrOff
    /\ CosOff
    /\ ToolOff
    /\ ChunkOff
    /\ CacheOff
    /\ LocalOff
    /\ UpsertOff
    /\ RegistryOff
    /\ IdOff
    /\ embPc = "called"
    /\ embArgs \in [service : {"EmbeddingService", "OpenAIEmbeddingService"},
                    texts : TextLists(MaxTexts), batchSize : {1, 2}]
    /\ validTexts = <<>>
    /\ embResults = <<>>
    /\ embReturn = [kind |-> "none", value |-> <<>>]

\* EmbeddingService.generateEmbeddings up to its loop: the empty list is
\* answered at once, a list without a valid text is rejected
EmbedStart ==
    /\ embPc = "called"
    /\ embArgs.service = "EmbeddingService"
    /\ LET valid == collectValidTexts(embArgs.texts, 1)
       IN  IF embArgs.texts = <<>>
           THEN /\ embPc' = "done"
                /\ embReturn' = embReturned(<<>>)
                /\ UNCHANGED <<validTexts, embResults>>
           ELSE IF valid = <<>>
           THEN /\ embPc' = "done"
                /\ embReturn' = embRejected
                /\ UNCHANGED <<validTexts, embResults>>
           ELSE /\ embPc' = "batches"
                /\ validTexts' = valid
                /\ embResults' = [i \in 1..Len(embArgs.texts) |-> undefined]
                /\ embReturn' = embReturn
    /\ UNCHANGED <<embArgs, embOthers>>

\* one iteration of the loop over the batches: the request for the next
\* batchSize valid texts is answered
EmbedBatch ==
    /\ embPc = "batches"
    /\ validTexts # <<>>
    /\ LET n == Min(embArgs.batchSize, Len(validTexts))
       IN  /\ embResults' = mapBack(embResults, SubSeq(validTexts, 1, n))
           /\ validTexts' = SubSeq(validTexts, n + 1, Len(validTexts))
    /\ UNCHANGED <<embPc, embArgs, embReturn, embOthers>>

\* the request for a batch fails: an EmbeddingError is thrown
EmbedBatchFails ==
    /\ embPc = "batches"
    /\ validTexts # <<>>
    /\ embPc' = "done"
    /\ embReturn' = embRejected
    /\ UNCHANGED <<embArgs, validTexts, embResults, embOthers>>

\* `return results` after the last batch
EmbedReturn ==
    /\ embPc = "batches"
    /\ validTexts = <<>>
    /\ embPc' = "done"
    /\ embReturn' = embReturned(embResults)
    /\ UNCHANGED <<embArgs, validTexts, embResults, embOthers>>

\* OpenAIEmbeddingService.generateEmbeddings: res.data.map(d => d.embedding)
OpenAIEmbed ==
    /\ embPc = "called"
    /\ embArgs.service = "OpenAIEmbeddingService"
    /\ embPc' = "done"
    /\ embReturn' = embReturned([i \in 1..Len(embArgs.texts) |->
                                    embeddingOf(embArgs.texts[i])])
    /\ UNCHANGED <<embArgs, validTexts, embResults, embOthers>>

\* its request fails: an EmbeddingError is thrown
OpenAIEmbedFails ==
    /\ embPc = "called"
    /\ embArgs.service = "OpenAIEmbeddingService"
    /\ embPc' = "done"
    /\ embReturn' = embRejected
    /\ UNCHANGED <<embArgs, validTexts, embResults, embOthers>>

EmbedNext ==
    \/ EmbedStart \/ EmbedBatch \/ EmbedBatchFails \/ EmbedReturn
    \/ OpenAIEmbed \/ OpenAIEmbedFails

EmbedSpec == EmbedInit /\ [][EmbedNext]_vars

-----------------------------------------------------------------------------
(* upsertVectors(vectors) of VectorStoreService and ScoutVectorStoreService, *)
(* called by an index_source run: the vectors are cut into batches of        *)
(* batchSize, each batch is sent up to maxRetries times with a delay between *)
(* the attempts, and the run returns what the outcome makes it return.       *)
(* Every request is answered and every timer fires.  A request that fails    *)
(* has written nothing.                                                      *)

\* largest number of vectors passed to upsertVectors
MaxVectors == 4

\* const maxRetries = 3
maxRetries == 3

upsertOthers == <<searchVars, mmrVars, cosVars, toolVars, chunkVars, cacheVars,
                  localVars, embVars, registryVars, idVars>>

\* createBatches(vectors, batchSize).length
batchCount(args) == (args.n + args.batchSize - 1) \div args.batchSize

backoffDelay_Fixed(count) == 2000

\* const delay = Math.pow(2, retryCount) * 1000
backoffDelay(count) == (2 ^ count) * 1000

UpsertInit ==
    /\ SearchOff
    /\ MmrOff
    /\ CosOff
    /\ ToolOff
    /\ ChunkOff
    /\ CacheOff
    /\ LocalOff
    /\ EmbedOff
    /\ RegistryOff
    /\ IdOff
    /\ upPc = "called"
    /\ upArgs \in [n : 0..MaxVectors, batchSize : {1, 2}]
    /\ batchIdx = 0
    /\ retryCount = 0
    /\ upLog = <<>>
    /\ upStored = {}
    /\ upResult = NoUpsertResult

\* `if (vectors.length === 0) return`, else the loop starts at the first batch
UpsertStart ==
    /\ upPc = "called"
    /\ IF upArgs.n = 0
       THEN /\ upPc' = "settled"
            /\ upResult' = [upResult EXCEPT !.upsert = "resolved"]
            /\ batchIdx' = batchIdx
       ELSE /\ upPc' = "attempt"
            /\ upResult' = upResult
            /\ batchIdx' = 1
    /\ UNCHANGED <<upArgs, retryCount, upLog, upStored, upsertOthers>>

\* the request for the batch succeeds: `break`, and the for loop goes to the
\* next batch with retryCount = 0, or upsertVectors resolves
UpsertAttemptOk ==
    /\ upPc = "attempt"
    /\ upLog' = Append(upLog, [batch |-> batchIdx, kind |-> "ok", delay |-> 0])
    /\ upStored' = upStored \cup {batchIdx}
    /\ retryCount' = 0
    /\ IF batchIdx = batchCount(upArgs)
       THEN /\ upPc' = "settled"
            /\ upResult' = [upResult EXCEPT !.upsert = "resolved"]
            /\ batchIdx' = batchIdx
       ELSE /\ upPc' = "attempt"
            /\ upResult' = upResult
            /\ batchIdx' = batchIdx + 1
    /\ UNCHANGED <<upArgs, upsertOthers>>

\* the request for the batch fails: the catch block counts the failure and
\* throws a VectorStoreError when retryCount has reached maxRetries
UpsertAttemptFails ==
    /\ upPc = "attempt"
    /\ upLog' = Append(upLog, [batch |-> batchIdx, kind |-> "fail", delay |-> 0])
    /\ retryCount' = retryCount + 1
    /\ IF retryCount + 1 >= maxRetries
       THEN /\ upPc' = "settled"
            /\ upResult' = [upResult EXCEPT !.upsert = "rejected"]
       ELSE /\ upPc' = "backoff"
            /\ upResult' = upResult
    /\ UNCHANGED <<upArgs, batchIdx, upStored, upsertOthers>>

\* the timer of the backoff fires; the while loop sends the batch again
UpsertBackoff ==
    /\ upPc = "backoff"
    /\ upLog' = Append(upLog, [batch |-> batchIdx, kind |-> "wait",
                              delay |-> backoffDelay(retryCount)])
    /\ upPc' = "attempt"
    /\ UNCHANGED <<upArgs, batchIdx, retryCount, upStored, upResult, upsertOthers>>

\* IndexSourceTool.execute after `await upsertVectors(vectors)`: success is
\* returned when it resolved; when it rejected the catch block returns the
\* failure, and deletes nothing
IndexSourceReturns ==
    /\ upPc = "settled"
    /\ upPc' = "done"
    /\ upResult' = [upResult EXCEPT !.success = (upResult.upsert = "resolved")]
    /\ UNCHANGED <<upArgs, batchIdx, retryCount, upLog, upStored, upsertOthers>>

UpsertNext ==
    \/ UpsertStart \/ UpsertAttemptOk \/ UpsertAttemptFails \/ UpsertBackoff
    \/ IndexSourceReturns

UpsertSpec == UpsertInit /\ [][UpsertNext]_vars /\ WF_vars(UpsertNext)

-----------------------------------------------------------------------------
(* The registry update of index_source (IndexSourceTool.execute, lines      *)
(* 252-265) by concurrent runs.  Every run makes its own                    *)
(* SourceRegistryService and calls upsert, which loads the file into the    *)
(* service's cache, sets the entry of the source and saves the cache.  The  *)
(* steps are the awaits of upsert: readFile, and writeFile.                 *)

\* number of index_source runs updating the registry at once
MaxRuns == 2

registryOthers == <<searchVars, mmrVars, cosVars, toolVars, chunkVars, cacheVars,
                    localVars, embVars, upsertVars, idVars>>

Runs == 1..MaxRuns

\* the sources of the registry; run r indexes RegistrySources[r], the last
\* source is indexed by no run
RegistrySources == 1..MaxRuns + 1

\* what the registry holds for a source: no entry, or an entry with the
\* status the run that wrote it had
EntryValues == {"absent", "indexed", "failed"}

EmptyRegistry == [s \in RegistrySources |-> "absent"]

RegistryInit ==
    /\ SearchOff
    /\ MmrOff
    /\ CosOff
    /\ ToolOff
    /\ ChunkOff
    /\ CacheOff
    /\ LocalOff
    /\ EmbedOff
    /\ UpsertOff
    /\ IdOff
    /\ \E exists \in BOOLEAN, entries \in [RegistrySources -> EntryValues] :
        /\ ~exists => entries = EmptyRegistry
        /\ registryFile = [exists |-> exists, entries |-> entries]
        /\ registryBefore = entries
    /\ registryRuns \in [Runs -> [pc : {"start"}, cache : {EmptyRegistry},
                                  status : {"indexed", "failed"}]]

\* load: readFile and JSON.parse succeed, the cache is the content of the file
RegistryLoad(r) ==
    /\ registryRuns[r].pc = "start"
    /\ registryFile.exists
    /\ registryRuns' = [registryRuns EXCEPT ![r].pc = "loaded",
                                            ![r].cache = registryFile.entries]
    /\ UNCHANGED <<registryFile, registryBefore, registryOthers>>

\* load: readFile rejects because the file does not exist; the catch block
\* empties the cache and goes on to save it
RegistryLoadFails(r) ==
    /\ registryRuns[r].pc = "start"
    /\ ~registryFile.exists
    /\ registryRuns' = [registryRuns EXCEPT ![r].pc = "recreate",
                                            ![r].cache = EmptyRegistry]
    /\ UNCHANGED <<registryFile, registryBefore, registryOthers>>

\* load: `await this.save()` of the catch block writes the empty cache
RegistryRecreate(r) ==
    /\ registryRuns[r].pc = "recreate"
    /\ registryFile' = [exists |-> TRUE, entries |-> registryRuns[r].cache]
    /\ registryRuns' = [registryRuns EXCEPT ![r].pc = "loaded"]
    /\ UNCHANGED <<registryBefore, registryOthers>>

\* upsert: `this.cache[source.id] = source` and save: writeFile replaces the
\* content of the file by the cache
RegistrySave(r) ==
    /\ registryRuns[r].pc = "loaded"
    /\ LET cache == [registryRuns[r].cache EXCEPT ![r] = registryRuns[r].status]
       IN  /\ registryFile' = [exists |-> TRUE, entries |-> cache]
           /\ registryRuns' = [registryRuns EXCEPT ![r].pc = "done", ![r].cache = cache]
    /\ UNCHANGED <<registryBefore, registryOthers>>

RegistryNext ==
    \E r \in Runs :
        \/ RegistryLoad(r) \/ RegistryLoadFails(r) \/ RegistryRecreate(r)
        \/ RegistrySave(r)

RegistrySpec == RegistryInit /\ [][RegistryNext]_vars

-----------------------------------------------------------------------------
(* index_source of a documentation site crawled by Firecrawl, with          *)
(* tokensPerChunk given: the results of the crawl become the pages of       *)
(* docContent (IndexSourceTool.execute, lines 168-176) and                  *)
(* rechunkDocumentation cuts every page into chunks whose id is the base id *)
(* of the page followed by the running index idx of the page.  A result is  *)
(* its url ("" when it has none) and the length of its content.             *)

\* largest number of results of a crawl
MaxPages == 2

idOthers == <<searchVars, mmrVars, cosVars, toolVars, chunkVars, cacheVars,
              localVars, embVars, upsertVars, registryVars>>

CrawlResults == [url : {"", "site/a", "site/b"}, length : {0, 5, 13}]

RECURSIVE ResultLists(_)
ResultLists(n) ==
    IF n = 0 THEN {<<>>}
    ELSE LET shorter == ResultLists(n - 1)
         IN  shorter \cup {Append(rs, r) : rs \in {l \in shorter : Len(l) = n - 1},
                                           r \in CrawlResults}

\* url: r.url || input.url
pageUrl(args, i) ==
    IF args.results[i].url # "" THEN args.results[i].url ELSE args.url

\* ContentProcessor.generateChunkId(docContent.url, page.url): a stable
\* identifier, a deterministic function of the source and the path or url
generateChunkId(docUrl, path) == <<docUrl, path>>

\* base.id of page i
baseId(args, i) == generateChunkId(args.url, pageUrl(args, i))

\* the window arguments of page i
pageArgs(args, i) ==
    [length |-> args.results[i].length, tokensPerChunk |-> args.tokensPerChunk]

IdInit ==
    /\ SearchOff
    /\ MmrOff
    /\ CosOff
    /\ ToolOff
    /\ ChunkOff
    /\ CacheOff
    /\ LocalOff
    /\ EmbedOff
    /\ UpsertOff
    /\ RegistryOff
    /\ idPc = "pages"
    /\ idArgs \in [url : {"site"}, results : ResultLists(MaxPages),
                   tokensPerChunk : {32}]
    /\ pageIdx = 1
    /\ pagePos = 0
    /\ idx = 0
    /\ chunkIds = <<>>

\* one iteration of the loop over the page: the chunk `${base.id}_${idx++}`
\* is pushed and pos moves
IdWindow ==
    /\ idPc = "pages"
    /\ pageIdx <= Len(idArgs.results)
    /\ pagePos < idArgs.results[pageIdx].length
    /\ Len(chunkIds) < MaxWindows
    /\ chunkIds' = Append(chunkIds, <<baseId(idArgs, pageIdx), idx>>)
    /\ idx' = idx + 1
    /\ pagePos' = nextPos(pageArgs(idArgs, pageIdx), pagePos)
    /\ UNCHANGED <<idPc, idArgs, pageIdx, idOthers>>

\* the loop over the page is over: the next page starts with idx = 0
IdNextPage ==
    /\ idPc = "pages"
    /\ pageIdx <= Len(idArgs.results)
    /\ pagePos >= idArgs.results[pageIdx].length
    /\ pageIdx' = pageIdx + 1
    /\ pagePos' = 0
    /\ idx' = 0
    /\ UNCHANGED <<idPc, idArgs, chunkIds, idOthers>>

\* `return chunks` after the last page
IdReturn ==
    /\ idPc = "pages"
    /\ pageIdx > Len(idArgs.results)
    /\ idPc' = "done"
    /\ UNCHANGED <<idArgs, pageIdx, pagePos, idx, chunkIds, idOthers>>

IdNext == IdWindow \/ IdNextPage \/ IdReturn

IdSpec == IdInit /\ [][IdNext]_vars

-----------------------------------------------------------------------------
(* Properties of the search *)

\* the request was served: both provider calls succeeded and the ranking ran
Answered == pc = "done" /\ calls.failed = "none"

\* number of candidates the index returned whose raw score is at least t
PassCount(t) == Cardinality({i \in 1..Len(vectorResults) : vectorResults[i].score >= t})

\* the request was served on the heuristic re-scoring path
HeuristicPath == Answered /\ ~haveValues(filteredVectors)

\* number of accepted vectors, and of returned results, whose source url is u
CountVectorUrl(vectors, u) ==
    Cardinality({i \in 1..Len(vectors) : vectors[i].metadata.sourceUrl = u})

CountResultUrl(results, u) ==
    Cardinality({i \in 1..Len(results) : results[i].source.url = u})

\* how many of `vectors` can be returned when at most `cap` may come from
\* each source url of `urls`
RECURSIVE RoomWithinCap(_, _, _)
RoomWithinCap(urls, vectors, cap) ==
    IF urls = {} THEN 0
    ELSE LET u == CHOOSE y \in urls : TRUE
         IN  Min(CountVectorUrl(vectors, u), cap)
                 + RoomWithinCap(urls \ {u}, vectors, cap)

\* C1: every search returns at most maxResults results, on the diversity
\* path and on the heuristic re-scoring path.
C1_AtMostMaxResults ==
    Answered => Len(rankedResults) <= input.maxResults

\* C2: when the index returned at least one candidate the search returns at
\* least one result; and when no candidate passes any threshold of the ladder,
\* the accepted candidates are the top maxResults candidates by raw score.
C2_NeverEmptyWhenCandidates ==
    Answered /\ Len(vectorResults) >= 1 =>
        /\ Len(rankedResults) >= 1
        /\ (\A t \in {input.threshold, 60, 50, 40, 30, 20} : PassCount(t) = 0) =>
            /\ Len(filteredVectors) = Min(input.maxResults, Len(vectorResults))
            /\ Range(filteredVectors) \subseteq Range(vectorResults)
            /\ \A v \in Range(vectorResults) \ Range(filteredVectors) :
                   \A w \in Range(filteredVectors) : v.score <= w.score

\* C2 witness: two candidates, neither passes any threshold of the ladder, and
\* the better one alone is returned.
C2_Witness ==
    /\ Answered
    /\ Len(vectorResults) >= 2
    /\ \A t \in {input.threshold, 60, 50, 40, 30, 20} : PassCount(t) = 0
    /\ Len(filteredVectors) < Len(vectorResults)
    /\ Len(rankedResults) >= 1

\* C3 as claimed: with adaptive relaxation enabled the cutoff is the first
\* threshold of the ladder, the requested one included, that at least
\* min(minResults, maxResults) candidates pass.
C3_FirstThresholdReachingTarget ==
    Answered /\ input.lowerThresholdOnFewResults =>
        LET ladder == <<input.threshold, 60, 50, 40, 30, 20>>
            need == Min(input.minResults, input.maxResults)
            reach == {i \in 1..Len(ladder) : PassCount(ladder[i]) >= need}
        IN  reach # {} =>
                cutoff = ladder[CHOOSE i \in reach : \A j \in reach : i <= j]

\* C3 as amended: with adaptive relaxation enabled the requested threshold is
\* kept exactly when at least minResults candidates pass it; otherwise the
\* cutoff is the first fallback threshold (0.6, 0.5, 0.4, 0.3, 0.2) that at
\* least min(minResults, maxResults) candidates pass, and 0.2 when none does.
C3_CutoffAfterRelaxation ==
    Answered /\ input.lowerThresholdOnFewResults =>
        LET fallback == <<60, 50, 40, 30, 20>>
            need == Min(input.minResults, input.maxResults)
            reach == {i \in 1..Len(fallback) : PassCount(fallback[i]) >= need}
        IN  IF PassCount(input.threshold) >= input.minResults
            THEN cutoff = input.threshold
            ELSE IF reach # {}
                 THEN cutoff = fallback[CHOOSE i \in reach : \A j \in reach : i <= j]
                 ELSE cutoff = 20

\* C3 witness: min(minResults, maxResults) candidates pass the requested
\* threshold but fewer than minResults do, and the cutoff was relaxed.
C3_Witness ==
    /\ Answered
    /\ input.lowerThresholdOnFewResults
    /\ PassCount(input.threshold) >= Min(input.minResults, input.maxResults)
    /\ PassCount(input.threshold) < input.minResults
    /\ cutoff = 60
    /\ input.threshold = 70

\* C4: the ladder walked is descending, every fallback threshold tried being
\* lower than the requested one, so (the claim's consequence, which is what is
\* stated here) every candidate that passed the requested threshold is among
\* the candidates accepted after relaxation.
C4_RelaxationOnlyLowers ==
    Answered =>
        \A i \in 1..Len(vectorResults) :
            vectorResults[i].score >= input.threshold =>
                vectorResults[i] \in Range(filteredVectors)

\* C5 as claimed: for the same candidates and an otherwise identical query, a
\* higher requested threshold never gives more accepted candidates.
C5_ThresholdMonotone ==
    Answered =>
        \A t \in ThresholdValues :
            t >= input.threshold =>
                Len(thresholdStep(vectorResults, [input EXCEPT !.threshold = t]))
                    <= Len(filteredVectors)

\* C5 as amended: a higher requested threshold never gives more accepted
\* candidates when the higher threshold is applied as it is, that is when at
\* least one candidate passes it and, with adaptive relaxation enabled, at
\* least minResults candidates do.
C5_MonotoneWhenApplied ==
    Answered =>
        \A t \in ThresholdValues :
            /\ t >= input.threshold
            /\ PassCount(t) >= 1
            /\ input.lowerThresholdOnFewResults => PassCount(t) >= input.minResults
            => Len(thresholdStep(vectorResults, [input EXCEPT !.threshold = t]))
                    <= Len(filteredVectors)

\* C5 witness: a strictly higher threshold that is applied as it is accepts
\* strictly fewer candidates.
C5_Witness ==
    /\ Answered
    /\ \E t \in ThresholdValues :
        /\ t > input.threshold
        /\ PassCount(t) >= 1
        /\ input.lowerThresholdOnFewResults => PassCount(t) >= input.minResults
        /\ Len(thresholdStep(vectorResults, [input EXCEPT !.threshold = t]))
               < Len(filteredVectors)

\* C6: with adaptive relaxation disabled the cutoff is the requested
\* threshold, and whenever a candidate passes it the accepted candidates are
\* exactly the candidates that pass it, however few they are.
C6_NoRelaxationWhenDisabled ==
    Answered /\ input.lowerThresholdOnFewResults = FALSE =>
        /\ cutoff = input.threshold
        /\ PassCount(input.threshold) >= 1 =>
            /\ Len(filteredVectors) = PassCount(input.threshold)
            /\ \A j \in 1..Len(filteredVectors) :
                   filteredVectors[j].score >= input.threshold

\* C6 witness: relaxation is disabled, fewer candidates than the target pass
\* the requested threshold, a fallback threshold would accept more, and only
\* those passing the requested threshold are accepted.
C6_Witness ==
    /\ Answered
    /\ input.lowerThresholdOnFewResults = FALSE
    /\ PassCount(input.threshold) >= 1
    /\ PassCount(input.threshold) < Min(input.minResults, input.maxResults)
    /\ PassCount(60) > PassCount(input.threshold)
    /\ Len(filteredVectors) = PassCount(input.threshold)

\* C7: on the heuristic path at most maxPerSource results come from one source
\* url, and exactly maxResults results are returned whenever the accepted
\* candidates hold that many within the cap.
C7_PerSourceCap ==
    HeuristicPath =>
        LET urls == {filteredVectors[i].metadata.sourceUrl : i \in 1..Len(filteredVectors)}
        IN  /\ \A u \in urls :
                   CountResultUrl(rankedResults, u) <= input.maxPerSource
            /\ RoomWithinCap(urls, filteredVectors, input.maxPerSource)
                   >= input.maxResults =>
                   Len(rankedResults) = input.maxResults

\* the content hash of a returned result: that of the accepted vector it was
\* converted from
ResultHash(r) == filteredVectors[r.ref].metadata.hash

\* C8: with deduplication on, no two returned results have the same content
\* hash and the same source path, and a returned result scores at least as
\* high as every accepted candidate with its hash and path.
C8_NoDuplicates ==
    Answered /\ input.dedupe =>
        /\ \A p, q \in 1..Len(rankedResults) :
               p # q => ~(/\ ResultHash(rankedResults[p]) = ResultHash(rankedResults[q])
                          /\ rankedResults[p].source.path = rankedResults[q].source.path)
        /\ \A p \in 1..Len(rankedResults) : \A j \in 1..Len(filteredVectors) :
               /\ filteredVectors[j].metadata.hash = ResultHash(rankedResults[p])
               /\ filteredVectors[j].metadata.sourcePath = rankedResults[p].source.path
               => filteredVectors[j].score <= rankedResults[p].score

\* C9: the score of every returned result is the raw similarity score the
\* index reported for the candidate the result was made from, on both paths.
C9_ScoreIsRawScore ==
    Answered =>
        \A p \in 1..Len(rankedResults) :
            /\ rankedResults[p].ref \in 1..Len(filteredVectors)
            /\ LET v == filteredVectors[rankedResults[p].ref]
               IN  /\ rankedResults[p].content = v.metadata.content
                   /\ rankedResults[p].source.url = v.metadata.sourceUrl
                   /\ rankedResults[p].source.path = v.metadata.sourcePath
                   /\ rankedResults[p].score = v.score

\* C9 witness: a result of the heuristic path whose adjusted score differs
\* from its raw score.
C9_Witness ==
    /\ HeuristicPath
    /\ \E p \in 1..Len(rankedResults) :
        calculateAdjustedScore(rankedResults[p], input.query)
            # rankedResults[p].score * adjustedDenominator(input.query)

\* C13: when the similarity query returns no candidates, the search returns
\* a successful value with an empty result list, a total of 0 and the
\* explanatory message.
C13_NoCandidatesIsSuccess ==
    Answered /\ vectorResults = <<>> =>
        /\ success
        /\ rankedResults = <<>>
        /\ totalResults = 0
        /\ message = NoResultsMessage

\* C13 witness: a served request whose similarity query returned nothing
\* although up to four matches were asked for.
C13_Witness ==
    /\ Answered
    /\ vectorResults = <<>>
    /\ issuedQuery.topK >= 4
    /\ success
    /\ message = NoResultsMessage

C16_ThreeAttemptsBeforeFailure ==
    pc = "done" =>
        /\ calls.failed = "embedding" => calls.embedding = 3
        /\ calls.failed = "query" => calls.query = 3

-----------------------------------------------------------------------------
(* Properties of maximalMarginalRelevance *)

\* lambda * relevance(c) - (1 - lambda) * (maximum similarity of c to the
\* candidates at `chosen`), in thousandths
TradeOff(i, chosen) ==
    LET c == mmrArgs.candidates
        sims == {cosine(c[i], c[j]) : j \in chosen}
        redundancy == IF chosen = {} THEN 0
                      ELSE CHOOSE m \in sims : \A x \in sims : x <= m
    IN  mmrArgs.lambda * cosine(c[i], mmrArgs.query)
            - (10 - mmrArgs.lambda) * redundancy

\* C10: maximalMarginalRelevance returns min(k, number of candidates)
\* pairwise distinct indices, and every pick is an unselected candidate that
\* maximizes the relevance / redundancy trade-off against the picks before it.
C10_MmrSelection ==
    LET n == Len(mmrArgs.candidates)
        Before(p) == {mmrSelected[q] : q \in 1..(p - 1)}
    IN  /\ mmrPc = "done" => Len(mmrSelected) = Min(mmrArgs.k, n)
        /\ \A p, q \in 1..Len(mmrSelected) : p # q => mmrSelected[p] # mmrSelected[q]
        /\ \A p \in 1..Len(mmrSelected) :
               /\ mmrSelected[p] \in (1..n) \ Before(p)
               /\ \A i \in (1..n) \ Before(p) :
                      TradeOff(i, Before(p)) <= TradeOff(mmrSelected[p], Before(p))

\* C10 witness: a finished call with four candidates and three picks, one of
\* them made although a more relevant candidate was still unselected.
C10_Witness ==
    /\ mmrPc = "done"
    /\ Len(mmrArgs.candidates) >= 4
    /\ Len(mmrSelected) >= 3
    /\ mmrArgs.lambda = 5
    /\ \E p \in 3..Len(mmrSelected) :
        \E i \in (1..Len(mmrArgs.candidates)) \ {mmrSelected[q] : q \in 1..p} :
            cosine(mmrArgs.candidates[i], mmrArgs.query)
                > cosine(mmrArgs.candidates[mmrSelected[p]], mmrArgs.query)

\* relevance of candidate i of the call: relScores[i]
Relevance(i) == cosine(mmrArgs.candidates[i], mmrArgs.query)

\* C11: with lambda = 1 the selection is in pure descending-relevance order:
\* relevance never increases along the output, equally relevant candidates
\* keep their candidate order, and no unselected candidate is more relevant
\* than a selected one.
C11_LambdaOneRelevanceOrder ==
    mmrArgs.lambda = 10 =>
        /\ \A p, q \in 1..Len(mmrSelected) :
               p < q =>
                   /\ Relevance(mmrSelected[p]) >= Relevance(mmrSelected[q])
                   /\ Relevance(mmrSelected[p]) = Relevance(mmrSelected[q])
                          => mmrSelected[p] < mmrSelected[q]
        /\ \A p \in 1..Len(mmrSelected) :
               \A i \in (1..Len(mmrArgs.candidates)) \ Range(mmrSelected) :
                   Relevance(i) <= Relevance(mmrSelected[p])

\* C11 witness: a finished call with lambda = 1 whose three picks are not in
\* candidate order, the later picks being redundant with the first and
\* strictly less relevant, while a less relevant candidate stays unselected.
C11_Witness ==
    /\ mmrPc = "done"
    /\ mmrArgs.lambda = 10
    /\ Len(mmrSelected) = 3
    /\ Len(mmrArgs.candidates) = 4
    /\ mmrSelected[1] > mmrSelected[2]
    /\ Relevance(mmrSelected[1]) > Relevance(mmrSelected[2])
    /\ Relevance(mmrSelected[2]) > Relevance(mmrSelected[3])
    /\ cosine(mmrArgs.candidates[mmrSelected[1]], mmrArgs.candidates[mmrSelected[2]]) > 0

-----------------------------------------------------------------------------
(* Properties of the cosine functions *)

\* every component of v is 0 (the empty vector included)
IsZeroVector(v) == \A i \in 1..Len(v) : v[i] = 0

-----------------------------------------------------------------------------
(* Properties of the tools *)

\* C15: a tool operation whose embedding or vector-store call failed ends
\* with a returned {success: false, message} value; execute never rejects.
C15_FailuresAreReturned ==
    /\ toolResult.kind # "rejected"
    /\ toolCall.pc = "done" /\ toolCall.failed \in {"embedding", "upsert", "stats", "delete"}
           => toolResult = Returned(FALSE)

-----------------------------------------------------------------------------
(* Properties of the query-embedding cache *)

\* C17: the query-embedding cache never holds more than maxCacheEntries
\* entries, whatever the requests and their interleaving.
C17_CacheBounded == Len(embeddingCache) <= maxCacheEntries

\* request r inserts its query in this step
Inserts(r) == requests[r].pc = "embedding" /\ requests'[r].pc = "querying"

\* C18: eviction is first-in-first-out: a step that inserts a new query into
\* a full cache removes exactly the entry inserted earliest and puts the new
\* query last, and a step that does not insert leaves the cache as it is.
C18_FifoEviction ==
    [][/\ \A r \in 1..MaxInFlight :
              /\ Inserts(r)
              /\ Len(embeddingCache) = maxCacheEntries
              /\ requests[r].query \notin Range(embeddingCache)
              => embeddingCache' = Append(Tail(embeddingCache), requests[r].query)
       /\ (\A r \in 1..MaxInFlight : ~Inserts(r)) => embeddingCache' = embeddingCache
      ]_vars

(***************************************************************************)
(* Properties of rechunkDocumentation, stated of ChunkSpec.                *)
(***************************************************************************)

\* C19: every iteration of the window loop starts at a strictly greater
\* position than the previous one (so the loop terminates for every page
\* and every tokensPerChunk > 0).
C19_WindowsAdvance ==
    \A i \in 1..(Len(chunks) - 1) : chunks[i + 1].start > chunks[i].start

\* C20: a page no longer than the chunk window yields exactly one chunk,
\* and no chunk is produced after the chunk that reaches the end of the page.
C20_OneChunkAndNoneAfterEnd ==
    /\ (chunkArgs.length > 0 /\ chunkArgs.length <= approxChars(chunkArgs.tokensPerChunk))
           => /\ Len(chunks) <= 1
              /\ chunkPc = "done" => Len(chunks) = 1
    /\ \A i \in 1..Len(chunks) : chunks[i].end = chunkArgs.length => i = Len(chunks)

(***************************************************************************)
(* Properties of the indexing and deleting tools, stated of ToolSpec.      *)
(***************************************************************************)

\* an index_source or index_local call that found nothing to index: the
\* content was read and gave no chunk
NothingToIndex ==
    /\ toolCall.tool \in {"index_source", "index_local"}
    /\ toolCall.pc = "done"
    /\ toolCall.failed = "none"
    /\ toolCall.n = 0

SkippedFiles == {i \in 1..Len(files) : files[i] = "unreadable"}
ReadableFiles == {i \in 1..Len(files) : files[i] = "ok"}

\* C22: when the batch has been chunked and the call has returned, every
\* readable file has been chunked although a sibling could not be read, and
\* every file skipped is named in the warnings returned with the result.
C22_SkippedFilesAreReported ==
    (localPc = "done" /\ localResult.kind = "returned")
        => /\ ReadableFiles \subseteq Range(localChunks)
           /\ SkippedFiles \subseteq Range(localResult.warnings)

(***************************************************************************)
(* Properties of generateEmbeddings, stated of EmbedSpec.                  *)
(***************************************************************************)

\* C23: the array generateEmbeddings returns has one embedding per input
\* text, element i being the embedding of texts[i] (of the text as it is
\* sent to the provider) for every i.
C23_OneEmbeddingPerTextInOrder ==
    (embPc = "done" /\ embReturn.kind = "returned")
        => /\ Len(embReturn.value) = Len(embArgs.texts)
           /\ \A i \in 1..Len(embArgs.texts) :
                  /\ embReturn.value[i].defined
                  /\ embReturn.value[i].of \in
                         {embArgs.texts[i], preprocessText(embArgs.texts[i])}

\* a delete_source call that reported success
DeleteSucceeded ==
    /\ toolCall.tool = "delete_source"
    /\ toolCall.pc = "done"
    /\ toolResult = Returned(TRUE)

\* C24: after delete_source reports success for a source, the index holds
\* no vector of that source, however many it held.
C24_SuccessLeavesNoVector ==
    DeleteSucceeded => store[toolCall.url] = 0

\* a success that took more than one page of deletions
C24_Witness ==
    /\ DeleteSucceeded
    /\ store[toolCall.url] = 0
    /\ toolCall.initialVectorCount - totalVectors(store) > deleteTopK

\* C25: when the search asked queryVectors for the raw vectors
\* (includeValues: true), every match of the answer carries its vector
\* values, so the candidates that survive thresholding are ranked by the
\* diversity (MMR) selection.
C25_ValuesReturnedWhenAsked ==
    (Answered /\ issuedQuery.includeValues)
        => /\ haveValues(vectorResults)
           /\ filteredVectors # <<>> => haveValues(filteredVectors)

(***************************************************************************)
(* Properties of upsertVectors and of the index_source run around it,      *)
(* stated of UpsertSpec.                                                   *)
(***************************************************************************)

\* positions of upLog holding a request for batch b, a failed one, a delay
AttemptsOf(b) == {j \in 1..Len(upLog) : upLog[j].batch = b /\ upLog[j].kind # "wait"}
FailuresOf(b) == {j \in 1..Len(upLog) : upLog[j].batch = b /\ upLog[j].kind = "fail"}
WaitsOf(b) == {j \in 1..Len(upLog) : upLog[j].batch = b /\ upLog[j].kind = "wait"}

\* at most three attempts per batch; a delay follows a failed attempt of its
\* batch, the first of a batch being 2000 ms and the second 4000 ms; the
\* batches are attempted in order, the next one only after a success, and
\* nothing follows the third failure of a batch
UpsertRetryDiscipline ==
    /\ \A b \in 1..MaxVectors + 1 :
          /\ Cardinality(AttemptsOf(b)) <= 3
          /\ Cardinality(WaitsOf(b)) <= 2
          /\ \A j \in WaitsOf(b) :
                /\ j > 1 /\ upLog[j - 1] = [batch |-> b, kind |-> "fail", delay |-> 0]
                /\ upLog[j].delay =
                       IF Cardinality({k \in WaitsOf(b) : k < j}) = 0 THEN 2000 ELSE 4000
    /\ \A j \in 1..Len(upLog) - 1 :
          /\ upLog[j].kind = "ok" => upLog[j + 1].batch = upLog[j].batch + 1
          /\ upLog[j].kind = "wait" => /\ upLog[j + 1].batch = upLog[j].batch
                                       /\ upLog[j + 1].kind # "wait"
          /\ upLog[j].kind = "fail" => /\ upLog[j + 1].batch = upLog[j].batch
                                       /\ upLog[j + 1].kind = "wait"
                                       /\ Cardinality(FailuresOf(upLog[j].batch)
                                                        \cap 1..j) < 3
    /\ upLog # <<>> => upLog[1].batch = 1

\* the outcome of upsertVectors: it resolves when every batch has succeeded
\* and rejects after the third failure of a batch
UpsertOutcome ==
    /\ upResult.upsert = "resolved"
           => \A b \in 1..batchCount(upArgs) :
                  \E j \in AttemptsOf(b) : upLog[j].kind = "ok"
    /\ upResult.upsert = "rejected"
           => /\ Cardinality(FailuresOf(upLog[Len(upLog)].batch)) = 3
              /\ upLog[Len(upLog)].kind = "fail"

\* C26: upsertVectors attempts each batch at most three times, waiting
\* 2000 ms and then 4000 ms between the attempts; a batch that succeeds lets
\* the next batch start, after the third failure of a batch the error is
\* raised and no later batch is attempted, and the call always terminates.
C26_BoundedRetryTerminates ==
    /\ [](UpsertRetryDiscipline /\ UpsertOutcome)
    /\ <>(upResult.upsert # "none")

\* a call rejected at its second batch, after a retried first batch
C26_Witness ==
    /\ upResult.upsert = "rejected"
    /\ upLog[Len(upLog)].batch = 2
    /\ Cardinality(WaitsOf(1)) = 2
    /\ Cardinality(WaitsOf(2)) = 2

\* C27: an index_source run that returned failure because storing the
\* vectors failed has left none of its vectors in the index.
C27_FailedRunLeavesNothing ==
    (upPc = "done" /\ upResult.upsert = "rejected" /\ ~upResult.success)
        => upStored = {}

(***************************************************************************)
(* Properties of delete_source under concurrent calls, stated of ConcSpec. *)
(***************************************************************************)

\* C28: the deletedChunks count delete_source reports equals the number of
\* vectors of the source it removed, and success is reported exactly when
\* at least one was removed, whatever calls for other sources ran meanwhile.
C28_DeletedChunksIsExact ==
    (toolCall.tool = "delete_source" /\ toolCall.pc = "done"
        /\ toolResult.kind = "returned")
        => /\ toolCall.deletedChunks = toolCall.removed
           /\ toolResult.success <=> toolCall.removed > 0

(***************************************************************************)
(* Properties of the source registry, stated of RegistrySpec.              *)
(***************************************************************************)

\* C29: when the concurrent index_source runs have all finished their
\* registry update, the registry holds the entry of every run's source, and
\* the entry of every source no run indexed is what it was.
C29_NoRegistryUpdateLost ==
    (\A r \in Runs : registryRuns[r].pc = "done")
        => /\ \A r \in Runs : registryFile.entries[r] = registryRuns[r].status
           /\ \A s \in RegistrySources \ Runs :
                  registryFile.entries[s] = registryBefore[s]

(***************************************************************************)
(* Properties of the chunk identifiers, stated of IdSpec.                  *)
(***************************************************************************)

\* C30: the chunks produced by one rechunkDocumentation call have pairwise
\* distinct identifiers, within a page and across pages.
C30_ChunkIdsDistinct ==
    \A i, j \in 1..Len(chunkIds) : i # j => chunkIds[i] # chunkIds[j]

====
